---- MODULE Spec2Model ----
(***************************************************************************)
(* Roomtone signaling server: the WebSocket connection gate, the room      *)
(* registry, the per-connection message dispatch, the binary media relay   *)
(* and the keepalive (entropy) timers of server/index.ts, with             *)
(* server/room.ts, server/media.ts and                                     *)
(*                                                                         *)
(* server/auth.ts.                                                         *)
(*                                                                         *)
(* Strings are sequences of one-character strings (the texts of the auth   *)
(* module are sequences of code points); byte buffers are                  *)
(* sequences of numbers 0..255.  Participant ids are the ordinal n of the  *)
(* n-th crypto.randomUUID() call; UuidString(n) is the 36-character text.  *)
(***************************************************************************)
EXTENDS Integers, Sequences, FiniteSets, Bags, TLC

\* ------------------------------------------------------------------ bounds
NumConns == 3

Conns == 1..NumConns

\* process configuration (environment variables read at start-up)
maxParticipants == 2

maxPayloadBytes == 40

MEDIA_PACKET_VERSION == 1

MAX_PEER_ID_BYTES == 120

NameLimit == 40

MimeLimit == 120

UuidLength == 36

\* ------------------------------------------------------- strings and bytes
Repeat(ch, n) == [i \in 1..n |-> ch]

Whitespace == {" ", "\t", "\n"}

RECURSIVE TrimStart(_)
TrimStart(s) ==
  IF Len(s) > 0 /\ Head(s) \in Whitespace THEN TrimStart(Tail(s)) ELSE s

RECURSIVE TrimEnd(_)
TrimEnd(s) ==
  IF Len(s) > 0 /\ s[Len(s)] \in Whitespace
  THEN TrimEnd(SubSeq(s, 1, Len(s) - 1))
  ELSE s

\* String.prototype.trim
Trim(s) == TrimEnd(TrimStart(s))

\* String.prototype.slice(0, n)
Slice0(s, n) == SubSeq(s, 1, IF Len(s) < n THEN Len(s) ELSE n)

\* ------------------------------------------- insertion-ordered Map<K, V>
\* A JavaScript Map is a sequence of entries [k, v] in insertion order.
MapKeys(m) == {m[i].k : i \in 1..Len(m)}

MapHas(m, key) == key \in MapKeys(m)

MapIndex(m, key) == CHOOSE i \in 1..Len(m) : m[i].k = key

MapGet(m, key) == m[MapIndex(m, key)].v

\* Map.set: an existing key keeps its position, a new key goes last
MapSet(m, key, val) ==
  IF MapHas(m, key)
  THEN [m EXCEPT ![MapIndex(m, key)] = [k |-> key, v |-> val]]
  ELSE Append(m, [k |-> key, v |-> val])

MapDeletes_always(m, key) == TRUE

\* the value Map.delete returns
MapDeletes(m, key) == MapHas(m, key)

MapDelete_keep(m, key) == m

\* Map.delete
MapDelete(m, key) ==
  IF MapHas(m, key)
  THEN LET i == MapIndex(m, key)
       IN SubSeq(m, 1, i - 1) \o SubSeq(m, i + 1, Len(m))
  ELSE m

\* ------------------------------------------------------ server/room.ts
RoomAdd(r, id, name) == MapSet(r, id, name)

\* remove(): `if (!name) return undefined` leaves the map alone when the id
\* is absent (or its stored name is the empty string)
RoomRemoves(r, id) == MapHas(r, id) /\ MapGet(r, id) # <<>>

RoomRemove_keep(r, id) == r

RoomRemove(r, id) == IF RoomRemoves(r, id) THEN MapDelete(r, id) ELSE r

RoomList_reversed(r) ==
  [i \in 1..Len(r) |-> [id |-> r[Len(r) + 1 - i].k, name |-> r[Len(r) + 1 - i].v]]

RoomList(r) == [i \in 1..Len(r) |-> [id |-> r[i].k, name |-> r[i].v]]

RoomCount(r) == Len(r)

\* ------------------------------------------------------------ UTF-8 text
\* A string used as a peer id is a sequence of code points below 2048.
ReplacementChar == 65533

Utf8OfCodePoint(cp) ==
  IF cp < 128 THEN <<cp>>
  ELSE <<192 + (cp \div 64), 128 + (cp % 64)>>

\* Buffer.from(text, "utf8"): the bytes of the halves, one after the other
RECURSIVE Utf8Encode(_)
Utf8Encode(text) ==
  IF text = <<>> THEN <<>>
  ELSE IF Len(text) = 1 THEN Utf8OfCodePoint(text[1])
  ELSE LET half == Len(text) \div 2
       IN Utf8Encode(SubSeq(text, 1, half))
          \o Utf8Encode(SubSeq(text, half + 1, Len(text)))

IsContinuation(b) == b >= 128 /\ b <= 191

IsLeadOfTwo(b) == b >= 194 /\ b <= 223

\* byte i completes the two-byte sequence that byte i - 1 leads
CompletesPair(bytes, i) ==
  i > 1 /\ IsLeadOfTwo(bytes[i - 1]) /\ IsContinuation(bytes[i])

\* Buffer.toString("utf8"): an ill-formed byte becomes U+FFFD
Utf8Decode(bytes) ==
  LET Skipped == 0 - 1
      unit(i) ==
        IF CompletesPair(bytes, i) THEN Skipped
        ELSE IF bytes[i] < 128 THEN bytes[i]
        ELSE IF i < Len(bytes) /\ CompletesPair(bytes, i + 1)
        THEN (bytes[i] - 192) * 64 + (bytes[i + 1] - 128)
        ELSE ReplacementChar
  IN SelectSeq([i \in 1..Len(bytes) |-> unit(i)], LAMBDA u : u # Skipped)

\* crypto.randomUUID(): the text of the n-th id handed out (n a digit)
UuidString(n) ==
  [i \in 1..UuidLength |->
     IF i \in {9, 14, 19, 24} THEN 45
     ELSE IF i = 15 THEN 52
     ELSE IF i = 20 THEN 56
     ELSE IF i = UuidLength THEN 48 + n
     ELSE 48]

\* ----------------------------------------------------- server/media.ts
Thrown == [thrown |-> TRUE, data |-> <<>>]

buildMediaPacket_payloadLength(peerId, payload) ==
  LET peerIdBytes == Utf8Encode(peerId)
  IN IF peerId = <<>> THEN Thrown
     ELSE IF Len(peerIdBytes) = 0 \/ Len(peerIdBytes) > MAX_PEER_ID_BYTES
     THEN Thrown
     ELSE IF Len(payload) = 0 THEN Thrown
     ELSE [thrown |-> FALSE,
           data |-> <<MEDIA_PACKET_VERSION, Len(payload)>>
                    \o peerIdBytes \o payload]

buildMediaPacket_charLength(peerId, payload) ==
  LET peerIdBytes == Utf8Encode(peerId)
  IN IF peerId = <<>> THEN Thrown
     ELSE IF Len(peerIdBytes) = 0 \/ Len(peerIdBytes) > MAX_PEER_ID_BYTES
     THEN Thrown
     ELSE IF Len(payload) = 0 THEN Thrown
     ELSE [thrown |-> FALSE,
           data |-> <<MEDIA_PACKET_VERSION, Len(peerId)>>
                    \o peerIdBytes \o payload]

\* buildMediaPacket: throws on an empty or over-long peer id and on an
\* empty payload, else [version][idLength][id bytes][payload]
buildMediaPacket(peerId, payload) ==
  LET peerIdBytes == Utf8Encode(peerId)
  IN IF peerId = <<>> THEN Thrown
     ELSE IF Len(peerIdBytes) = 0 \/ Len(peerIdBytes) > MAX_PEER_ID_BYTES
     THEN Thrown
     ELSE IF Len(payload) = 0 THEN Thrown
     ELSE [thrown |-> FALSE,
           data |-> <<MEDIA_PACKET_VERSION, Len(peerIdBytes)>>
                    \o peerIdBytes \o payload]

NoPacket == [none |-> TRUE, version |-> 0, peerId |-> <<>>, payload |-> <<>>]

parseMediaPacket_anyVersion(data) ==
  IF Len(data) < 3 THEN NoPacket
  ELSE LET idLength == data[2]
           headerLength == 2 + idLength
       IN IF idLength <= 0 \/ idLength > MAX_PEER_ID_BYTES THEN NoPacket
          ELSE IF Len(data) <= headerLength THEN NoPacket
          ELSE LET peerId == Utf8Decode(SubSeq(data, 3, headerLength))
               IN IF peerId = <<>> THEN NoPacket
                  ELSE [none |-> FALSE,
                        version |-> data[1],
                        peerId |-> peerId,
                        payload |-> SubSeq(data, headerLength + 1, Len(data))]

\* parseMediaPacket: null unless version, id length and sizes are right
parseMediaPacket(data) ==
  IF Len(data) < 3 THEN NoPacket
  ELSE IF data[1] # MEDIA_PACKET_VERSION THEN NoPacket
  ELSE LET idLength == data[2]
           headerLength == 2 + idLength
       IN IF idLength <= 0 \/ idLength > MAX_PEER_ID_BYTES THEN NoPacket
          ELSE IF Len(data) <= headerLength THEN NoPacket
          ELSE LET peerId == Utf8Decode(SubSeq(data, 3, headerLength))
               IN IF peerId = <<>> THEN NoPacket
                  ELSE [none |-> FALSE,
                        version |-> data[1],
                        peerId |-> peerId,
                        payload |-> SubSeq(data, headerLength + 1, Len(data))]

\* ------------------------------------------- normalizeMediaMimeType
\* a JSON value of a message field: a string, or something that is not one
Str(text) == [isString |-> TRUE, text |-> text]

NotAString == [isString |-> FALSE, text |-> <<>>]

AlnumChars == {"a", "v", "w", "x", "V", "0", "9"}

MimeSubtypeChars == AlnumChars \cup {".", "+", "-"}

\* /^[a-z0-9]+\/[a-z0-9.+-]+/i : anchored at the start only
MimePattern(s) ==
  \E i \in 1..Len(s) :
     /\ \A j \in 1..i : s[j] \in AlnumChars
     /\ Len(s) >= i + 2
     /\ s[i + 1] = "/"
     /\ s[i + 2] \in MimeSubtypeChars

NoMime == [ok |-> FALSE, text |-> <<>>]

normalizeMediaMimeType(value) ==
  IF ~value.isString THEN NoMime
  ELSE LET trimmed == Trim(value.text)
       IN IF trimmed = <<>> \/ Len(trimmed) > MimeLimit THEN NoMime
          ELSE IF ~MimePattern(trimmed) THEN NoMime
          ELSE [ok |-> TRUE, text |-> trimmed]

\* ------------------------------------------------ text as code points
\* The texts of the auth module (header values, request targets, tokens,
\* cookies) are sequences of code points; Text spells one out.
\* the printable ASCII characters, U+0020 first (U+0060 by its name)
Ascii ==
  <<" ", "!", "\"", "#", "$", "%", "&", "'", "(", ")", "*", "+",
    ",", "-", ".", "/", "0", "1", "2", "3", "4", "5", "6", "7",
    "8", "9", ":", ";", "<", "=", ">", "?", "@", "A", "B", "C",
    "D", "E", "F", "G", "H", "I", "J", "K", "L", "M", "N", "O",
    "P", "Q", "R", "S", "T", "U", "V", "W", "X", "Y", "Z", "[",
    "\\", "]", "^", "_", "GRAVE", "a", "b", "c", "d", "e", "f", "g",
    "h", "i", "j", "k", "l", "m", "n", "o", "p", "q", "r", "s",
    "t", "u", "v", "w", "x", "y", "z", "{", "|", "}", "~">>

CodeOf(ch) == 31 + (CHOOSE i \in 1..Len(Ascii) : Ascii[i] = ch)

Text(chars) == [i \in 1..Len(chars) |-> CodeOf(chars[i])]

\* the WhiteSpace and LineTerminator code points of String.prototype.trim
WhiteSpaceCodes ==
  {9, 10, 11, 12, 13, 32, 160, 5760, 8232, 8233, 8239, 8287, 12288, 65279}
    \cup (8192..8202)

\* String.prototype.trim on code points
TrimText(text) ==
  LET kept == {i \in 1..Len(text) : text[i] \notin WhiteSpaceCodes}
  IN IF kept = {} THEN <<>>
     ELSE SubSeq(text, CHOOSE i \in kept : \A j \in kept : i <= j,
                       CHOOSE i \in kept : \A j \in kept : i >= j)

\* String.prototype.toLowerCase, on the ASCII letters
ToLowerCase(text) ==
  [i \in 1..Len(text) |->
     IF text[i] >= 65 /\ text[i] <= 90 THEN text[i] + 32 ELSE text[i]]

StartsWith(text, prefix) ==
  Len(text) >= Len(prefix) /\ SubSeq(text, 1, Len(prefix)) = prefix

\* String.prototype.slice(n)
SliceFrom(text, n) == SubSeq(text, n + 1, Len(text))

\* String.prototype.split(sep) for a one-character separator
Split(text, sep) ==
  LET at == SelectSeq([i \in 1..Len(text) |-> IF text[i] = sep THEN i ELSE 0],
                      LAMBDA i : i # 0)
      cuts == <<0>> \o at \o <<Len(text) + 1>>
  IN [k \in 1..(Len(cuts) - 1) |-> SubSeq(text, cuts[k] + 1, cuts[k + 1] - 1)]

\* Array.prototype.join(sep)
RECURSIVE Join(_, _)
Join(parts, sep) ==
  IF parts = <<>> THEN <<>>
  ELSE IF Len(parts) = 1 THEN parts[1]
  ELSE parts[1] \o <<sep>> \o Join(Tail(parts), sep)

HexDigitValue(c) ==
  IF c >= 48 /\ c <= 57 THEN c - 48
  ELSE IF c >= 65 /\ c <= 70 THEN c - 55
  ELSE IF c >= 97 /\ c <= 102 THEN c - 87
  ELSE 0 - 1

\* text[i..i+2] is "%" and two hexadecimal digits
IsEscapeAt(text, i) ==
  /\ i + 2 <= Len(text)
  /\ text[i] = 37
  /\ HexDigitValue(text[i + 1]) >= 0
  /\ HexDigitValue(text[i + 2]) >= 0

EscapeAt(text, i) ==
  16 * HexDigitValue(text[i + 1]) + HexDigitValue(text[i + 2])

\* a text, or the URIError thrown instead of it
Decoded(text) == [thrown |-> FALSE, text |-> text]

URIError == [thrown |-> TRUE, text |-> <<>>]

\* the number of continuation octets the lead octet b asks for
Utf8Trail(b) ==
  IF b < 128 THEN 0
  ELSE IF b >= 194 /\ b <= 223 THEN 1
  ELSE IF b >= 224 /\ b <= 239 THEN 2
  ELSE IF b >= 240 /\ b <= 244 THEN 3
  ELSE 0 - 1

\* the escapes at i, i+3, ... are one well-formed UTF-8 sequence of n+1 octets
WellFormedAt(text, i, n) ==
  /\ \A k \in 1..n : /\ IsEscapeAt(text, i + 3 * k)
                     /\ IsContinuation(EscapeAt(text, i + 3 * k))
  /\ EscapeAt(text, i) = 224 => EscapeAt(text, i + 3) >= 160
  /\ EscapeAt(text, i) = 237 => EscapeAt(text, i + 3) <= 159
  /\ EscapeAt(text, i) = 240 => EscapeAt(text, i + 3) >= 144
  /\ EscapeAt(text, i) = 244 => EscapeAt(text, i + 3) <= 143

CodePointAt(text, i, n) ==
  LET lead == EscapeAt(text, i)
      t(k) == EscapeAt(text, i + 3 * k) - 128
  IN IF n = 0 THEN lead
     ELSE IF n = 1 THEN (lead - 192) * 64 + t(1)
     ELSE IF n = 2 THEN (lead - 224) * 4096 + t(1) * 64 + t(2)
     ELSE (lead - 240) * 262144 + t(1) * 4096 + t(2) * 64 + t(3)

\* decodeURIComponent from position i on: every "%" must start an escape,
\* and the escaped octets must be well-formed UTF-8, else URIError
RECURSIVE DecodeFrom(_, _)
DecodeFrom(text, i) ==
  IF i > Len(text) THEN Decoded(<<>>)
  ELSE IF text[i] # 37
  THEN LET rest == DecodeFrom(text, i + 1)
       IN IF rest.thrown THEN URIError ELSE Decoded(<<text[i]>> \o rest.text)
  ELSE IF ~IsEscapeAt(text, i) THEN URIError
  ELSE LET n == Utf8Trail(EscapeAt(text, i))
       IN IF n < 0 THEN URIError
          ELSE IF ~WellFormedAt(text, i, n) THEN URIError
          ELSE LET rest == DecodeFrom(text, i + 3 * (n + 1))
               IN IF rest.thrown THEN URIError
                  ELSE Decoded(<<CodePointAt(text, i, n)>> \o rest.text)

decodeURIComponent(text) == DecodeFrom(text, 1)

\* the letters, the digits and the marks - _ . ! ~ * ' ( )
UnreservedCodes ==
  (65..90) \cup (97..122) \cup (48..57) \cup {45, 95, 46, 33, 126, 42, 39, 40, 41}

HexDigitCode(v) == IF v < 10 THEN 48 + v ELSE 55 + v

EscapeOf(b) == <<37, HexDigitCode(b \div 16), HexDigitCode(b % 16)>>

RECURSIVE EscapeAll(_)
EscapeAll(bytes) ==
  IF bytes = <<>> THEN <<>>
  ELSE EscapeOf(Head(bytes)) \o EscapeAll(Tail(bytes))

\* encodeURIComponent: every code point but the unreserved ones becomes the
\* escapes of its UTF-8 octets
RECURSIVE encodeURIComponent(_)
encodeURIComponent(text) ==
  IF text = <<>> THEN <<>>
  ELSE IF Len(text) = 1
  THEN IF text[1] \in UnreservedCodes THEN text
       ELSE EscapeAll(Utf8OfCodePoint(text[1]))
  ELSE LET half == Len(text) \div 2
       IN encodeURIComponent(SubSeq(text, 1, half))
          \o encodeURIComponent(SubSeq(text, half + 1, Len(text)))

\* ------------------------------------------------------- server/auth.ts
\* a header value or request target: a string, or undefined
Undefined == NotAString

\* AUTH_COOKIE_NAME, by default "roomtone_auth"
cookieName ==
  Text(<<"r", "o", "o", "m", "t", "o", "n", "e", "_", "a", "u", "t", "h">>)

\* the octets of an application/x-www-form-urlencoded text: "+" is a space,
\* an escape is its octet, anything else (a stray "%" too) stands for itself
RECURSIVE FormOctets(_, _)
FormOctets(text, i) ==
  IF i > Len(text) THEN <<>>
  ELSE IF IsEscapeAt(text, i)
  THEN <<EscapeAt(text, i)>> \o FormOctets(text, i + 3)
  ELSE IF text[i] = 43 THEN <<32>> \o FormOctets(text, i + 1)
  ELSE Utf8OfCodePoint(text[i]) \o FormOctets(text, i + 1)

FormDecode(text) == Utf8Decode(FormOctets(text, 1))

\* the query of a request target: after the first "?", before any "#"
QueryOf(url) ==
  LET beforeHash == Split(url, 35)[1]
      pieces == Split(beforeHash, 63)
  IN IF Len(pieces) < 2 THEN <<>> ELSE Join(Tail(pieces), 63)

\* new URL(url, base).searchParams: the decoded name/value pairs, in order
SearchParams(url) ==
  LET fields == SelectSeq(Split(QueryOf(url), 38), LAMBDA f : f # <<>>)
      pair(f) == LET halves == Split(f, 61)
                 IN [k |-> FormDecode(halves[1]),
                     v |-> FormDecode(Join(Tail(halves), 61))]
  IN [i \in 1..Len(fields) |-> pair(fields[i])]

\* URLSearchParams.get: the first value of that name, or null
SearchParamsGet(params, name) ==
  IF MapHas(params, name) THEN Str(MapGet(params, name)) ELSE Undefined

\* the cookies read so far, or the URIError thrown while reading
Cookies(entries) == [thrown |-> FALSE, entries |-> entries]

CookiesThrown == [thrown |-> TRUE, entries |-> <<>>]

\* the forEach of parseCookies over the parts, soFar being its result object
RECURSIVE parseCookieParts(_, _)
parseCookieParts(parts, soFar) ==
  IF parts = <<>> THEN Cookies(soFar)
  ELSE LET pieces == Split(Head(parts), 61)
           key == TrimText(pieces[1])
           value == TrimText(Join(Tail(pieces), 61))
           decoded == decodeURIComponent(value)
       IN IF key = <<>> THEN parseCookieParts(Tail(parts), soFar)
          ELSE IF decoded.thrown THEN CookiesThrown
          ELSE parseCookieParts(Tail(parts), MapSet(soFar, key, decoded.text))

parseCookies(header) == parseCookieParts(Split(header, 59), <<>>)

\* a TokenLookup, or the exception thrown instead of it
TokenLookup(token, source) ==
  [thrown |-> FALSE, token |-> token, source |-> source]

NoToken == TokenLookup(Undefined, "none")

LookupThrown == [thrown |-> TRUE, token |-> Undefined, source |-> "none"]

\* `if (token)`: a string that is not empty
Truthy(value) == value.isString /\ value.text # <<>>

BearerPrefix == Text(<<"b", "e", "a", "r", "e", "r", " ">>)

TokenName == Text(<<"t", "o", "k", "e", "n">>)

\* authHeader && authHeader.toLowerCase().startsWith("bearer ")
IsBearer(authHeader) ==
  /\ Truthy(authHeader)
  /\ StartsWith(ToLowerCase(authHeader.text), BearerPrefix)

FromCookie(cookieHeader, name) ==
  IF ~Truthy(cookieHeader) THEN NoToken
  ELSE LET cookies == parseCookies(cookieHeader.text)
       IN IF cookies.thrown THEN LookupThrown
          ELSE IF ~MapHas(cookies.entries, name) THEN NoToken
          ELSE IF MapGet(cookies.entries, name) = <<>> THEN NoToken
          ELSE TokenLookup(Str(MapGet(cookies.entries, name)), "cookie")

\* the query parameter, else the cookie
FromQuery(url, cookieHeader, name) ==
  LET token == IF Truthy(url)
               THEN SearchParamsGet(SearchParams(url.text), TokenName)
               ELSE Undefined
  IN IF Truthy(token) THEN TokenLookup(token, "query")
     ELSE FromCookie(cookieHeader, name)

\* getTokenFromRequest(url, headers, cookieName), headers being the
\* Authorization and the Cookie header
getTokenFromRequest(url, authHeader, cookieHeader, name) ==
  IF IsBearer(authHeader)
  THEN TokenLookup(Str(TrimText(SliceFrom(authHeader.text, Len(BearerPrefix)))),
                   "header")
  ELSE FromQuery(url, cookieHeader, name)

\* a JSON number, or anything that is not one (a missing member too)
Num(n) == [isNumber |-> TRUE, value |-> n]

NotANumber == [isNumber |-> FALSE, value |-> 0]

\* JSON.parse(base64UrlDecode(segment)): the object, or the SyntaxError
Json(value) == [thrown |-> FALSE, value |-> value]

SyntaxError == [thrown |-> TRUE, value |-> <<>>]

\* The segments of a token are symbolic.  Header "H" says alg RS256 and "N"
\* says alg none; any other header segment is not base64url of JSON.
Rs256Header == Text(<<"H">>)

NoneHeader == Text(<<"N">>)

JoseHeaderOf(segment) ==
  IF segment = Rs256Header THEN Json([alg |-> "RS256"])
  ELSE IF segment = NoneHeader THEN Json([alg |-> "none"])
  ELSE SyntaxError

Payload(exp, nbf, iat) == [exp |-> exp, nbf |-> nbf, iat |-> iat]

\* the seconds a payload letter "A", "B", ... stands for
LetterSeconds == <<60, 70, 71, 95, 96, 99, 100, 101, 105, 106, 130, 131, 160>>

IsLetter(c) == c >= 65 /\ c < 65 + Len(LetterSeconds)

SecondsOf(c) == LetterSeconds[c - 64]

\* Payload segment "e" + letter has that exp alone; "n" + letter has that
\* nbf, "i" + letter that iat, both with exp 500; "0" is an object without
\* exp; "1" is the JSON text null; any other segment is not JSON.
PayloadOf(segment) ==
  IF Len(segment) = 2 /\ segment[1] = 101 /\ IsLetter(segment[2])
  THEN Json(Payload(Num(SecondsOf(segment[2])), NotANumber, NotANumber))
  ELSE IF Len(segment) = 2 /\ segment[1] = 110 /\ IsLetter(segment[2])
  THEN Json(Payload(Num(500), Num(SecondsOf(segment[2])), NotANumber))
  ELSE IF Len(segment) = 2 /\ segment[1] = 105 /\ IsLetter(segment[2])
  THEN Json(Payload(Num(500), NotANumber, Num(SecondsOf(segment[2]))))
  ELSE IF segment = <<48>> \/ segment = <<49>>
  THEN Json(Payload(NotANumber, NotANumber, NotANumber))
  ELSE SyntaxError

\* AUTH_PUBLIC_KEYS
publicKeys == {"key"}

\* verifier.verify(key, signature): signature segment "s" is the signature
\* of the signing input under "key", "z" the one under another key
Verifies(key, signingInput, signatureSegment) ==
  \/ key = "key" /\ signatureSegment = <<115>>
  \/ key = "other" /\ signatureSegment = <<122>>

Verified(claims) == [ok |-> TRUE, error |-> "", claims |-> claims]

Refused(error) ==
  [ok |-> FALSE, error |-> error,
   claims |-> Payload(NotANumber, NotANumber, NotANumber)]

IsExpired_strict(exp, nowSeconds, clockSkewSeconds) ==
  exp < nowSeconds - clockSkewSeconds

\* payload.exp <= nowSeconds - clockSkewSeconds
IsExpired(exp, nowSeconds, clockSkewSeconds) ==
  exp <= nowSeconds - clockSkewSeconds

\* typeof t === "number" && t > nowSeconds + clockSkewSeconds
IsAhead(t, nowSeconds, clockSkewSeconds) ==
  t.isNumber /\ t.value > nowSeconds + clockSkewSeconds

\* verifyJwt(token, publicKeys, nowSeconds, clockSkewSeconds)
verifyJwt(token, keys, nowSeconds, clockSkewSeconds) ==
  LET parts == Split(token, 46)
  IN IF Len(parts) # 3 THEN Refused("Token format invalid.")
     ELSE LET header == JoseHeaderOf(parts[1])
              payload == PayloadOf(parts[2])
              signingInput == parts[1] \o <<46>> \o parts[2]
          IN IF header.thrown \/ payload.thrown
             THEN Refused("Token payload invalid.")
             ELSE IF header.value.alg # "RS256"
             THEN Refused("Token algorithm not allowed.")
             ELSE IF ~payload.value.exp.isNumber
             THEN Refused("Token exp missing.")
             ELSE IF IsExpired(payload.value.exp.value, nowSeconds,
                               clockSkewSeconds)
             THEN Refused("Token expired.")
             ELSE IF IsAhead(payload.value.nbf, nowSeconds, clockSkewSeconds)
             THEN Refused("Token not active.")
             ELSE IF IsAhead(payload.value.iat, nowSeconds, clockSkewSeconds)
             THEN Refused("Token issued in the future.")
             ELSE IF ~\E key \in keys : Verifies(key, signingInput, parts[3])
             THEN Refused("Token signature invalid.")
             ELSE Verified(payload.value)

Max(a, b) == IF a > b THEN a ELSE b

\* buildAuthCookie: the Set-Cookie header, its name=value pair as text and
\* its attributes by name
buildAuthCookie(name, token, expiresInSeconds, secure) ==
  [pair |-> name \o <<61>> \o encodeURIComponent(token),
   path |-> "/", httpOnly |-> TRUE, sameSite |-> "Lax",
   maxAge |-> Max(0, expiresInSeconds), secure |-> secure]

buildClearCookie(name, secure) == buildAuthCookie(name, <<>>, 0, secure)

\* --------------------------------------------------- connection gate
Absent == "absent"

LoopbackAddresses == {"127.0.0.1", "::1", "::ffff:127.0.0.1"}

isLoopbackAddress(address) ==
  IF address = Absent THEN FALSE ELSE address \in LoopbackAddresses

\* the X-Forwarded-Proto header is the list of its comma-separated,
\* trimmed items; only the first one counts
isSecureRequest(protoHeader, encrypted, allowForwarded) ==
  IF encrypted THEN TRUE
  ELSE IF ~allowForwarded THEN FALSE
  ELSE IF protoHeader = <<>> THEN FALSE
  ELSE protoHeader[1] = "https"

\* what the gate reads of a request or handshake: the peer address, the
\* X-Forwarded-Proto header, the socket's TLS flag, the request target, the
\* Authorization and Cookie headers, and the clock (seconds) at its arrival
Request(address, protoHeader, encrypted, url, authorization, cookie, now) ==
  [address |-> address, protoHeader |-> protoHeader, encrypted |-> encrypted,
   url |-> url, authorization |-> authorization, cookie |-> cookie,
   now |-> now]

\* ------------------------------------------------------------------ state
VARIABLES
  mediaTransport,   \* "ws" or "webrtc", fixed at start-up
  allowInsecure,    \* ALLOW_INSECURE_HTTP
  trustProxy,       \* TRUST_PROXY
  authEnabled,      \* authConfig.enabled
  clockSkewSeconds, \* authConfig.clockSkewSeconds
  phase,            \* per socket: "idle", "rejected", "open", "errored", "closed"
  readyState,       \* per socket: ws.readyState
  receiving,        \* per socket: the receiver still emits "message"
  room,             \* RoomState.participants: Map id -> name
  clientsById,      \* Map id -> socket
  clientsBySocket,  \* Map socket -> Participant
  mediaById,        \* Map id -> mimeType
  entropyTimers,    \* Map socket -> its keepalive timer (never iterated)
  timeouts,         \* the bag of timers setTimeout holds pending
  uuidCount,        \* number of ids crypto.randomUUID() has handed out
  registrations,    \* history: how often each socket was registered
  last,             \* the event handled by the last step, with its input
  sent,             \* the frames written by the last step, in order
  call,             \* the function application evaluated by the last step
  result            \* and its value

vars ==
  <<mediaTransport, allowInsecure, trustProxy, authEnabled,
    clockSkewSeconds, phase, readyState, receiving, room, clientsById,
    clientsBySocket, mediaById, entropyTimers, timeouts, uuidCount,
    registrations, last, sent, call, result>>

configVars ==
  <<mediaTransport, allowInsecure, trustProxy, authEnabled, clockSkewSeconds>>

socketVars == <<phase, readyState, receiving>>

tableVars == <<room, clientsById, clientsBySocket, mediaById>>

timerVars == <<entropyTimers, timeouts>>

callVars == <<call, result>>

NoCall == [fn |-> "none"]

NoId == 0

NoneSent == <<>>

NoArg == <<>>

Event(op, c, arg) == [op |-> op, conn |-> c, arg |-> arg]

\* a frame written to socket ws
Written(ws, frame) == [to |-> ws, frame |-> frame]

ErrorMessage(text) == [type |-> "error", message |-> text]

entropyMinBytes == 128

entropyMaxBytes == 1024

entropyMinDelayMs == 1500

entropyMaxDelayMs == 3500

Timer(ws, delay) == [ws |-> ws, delay |-> delay]

\* entropyTimers is a function from the sockets that have an entry
NoTimers == [ws \in {} |-> Timer(ws, 0)]

\* ------------------------------------------------------- send, broadcast
send_always(out, rs, ws, payload) == Append(out, Written(ws, payload))

\* send: written only while the socket is OPEN
send(out, rs, ws, payload) ==
  IF rs[ws] = "OPEN" THEN Append(out, Written(ws, payload)) ELSE out

\* sendBinary: written only while the socket is OPEN
sendBinary(out, rs, ws, packet) ==
  IF rs[ws] = "OPEN"
  THEN Append(out, Written(ws, [type |-> "binary", data |-> packet]))
  ELSE out

RECURSIVE broadcastLoop(_, _, _, _, _)
broadcastLoop(out, rs, entries, payload, exceptId) ==
  IF entries = <<>> THEN out
  ELSE LET e == Head(entries)
           next == IF e.k = exceptId THEN out ELSE send(out, rs, e.v, payload)
       IN broadcastLoop(next, rs, Tail(entries), payload, exceptId)

broadcast_toAll(out, rs, byId, payload, exceptId) ==
  broadcastLoop(out, rs, byId, payload, NoId)

\* broadcast(payload, exceptId): every entry of clientsById but exceptId
broadcast(out, rs, byId, payload, exceptId) ==
  broadcastLoop(out, rs, byId, payload, exceptId)

RECURSIVE broadcastMediaLoop(_, _, _, _, _)
broadcastMediaLoop(out, rs, entries, packet, senderId) ==
  IF entries = <<>> THEN out
  ELSE LET e == Head(entries)
           next == IF e.k = senderId THEN out
                   ELSE sendBinary(out, rs, e.v, packet)
       IN broadcastMediaLoop(next, rs, Tail(entries), packet, senderId)

PacketTooLarge_never(packet) == FALSE

\* packet.length > maxPayloadBytes
PacketTooLarge(packet) == Len(packet) > maxPayloadBytes

broadcastMedia_echo(out, rs, byId, senderId, payload) ==
  LET built == buildMediaPacket(UuidString(senderId), payload)
  IN IF built.thrown THEN out
     ELSE IF PacketTooLarge(built.data) THEN out
     ELSE broadcastMediaLoop(out, rs, byId, built.data, NoId)

\* broadcastMedia(senderId, payload)
broadcastMedia(out, rs, byId, senderId, payload) ==
  LET built == buildMediaPacket(UuidString(senderId), payload)
  IN IF built.thrown THEN out
     ELSE IF PacketTooLarge(built.data) THEN out
     ELSE broadcastMediaLoop(out, rs, byId, built.data, senderId)

\* listMediaPeers(exceptId)
listMediaPeers(media, exceptId) ==
  LET kept == SelectSeq(media, LAMBDA e : e.k # exceptId)
  IN [i \in 1..Len(kept) |-> [id |-> kept[i].k, mimeType |-> kept[i].v]]

\* ws.close(code): only an OPEN socket starts the closing handshake ...
wsClose(rs, ws) == IF rs[ws] = "OPEN" THEN [rs EXCEPT ![ws] = "CLOSING"] ELSE rs

\* ... and writes the close frame carrying the code and the reason
wsCloseFrame(out, rs, ws, code, reason) ==
  IF rs[ws] = "OPEN"
  THEN Append(out, Written(ws, [type |-> "close", code |-> code,
                                reason |-> reason]))
  ELSE out

\* ----------------------------------------------------------------- inputs
NameInputs == {<<>>, <<" ">>, <<" ", "a", "l", " ">>}

MimeInputs ==
  {Str(<<" ", "v", "/", "w", ";", " ">>), Str(<<"v">>),
   Str(<<"v", "/">> \o Repeat("w", MimeLimit - 1)), NotAString}

HeaderBytes == 2 + UuidLength

PayloadInputs ==
  {<<>>, <<7>>, Repeat(9, maxPayloadBytes - HeaderBytes),
   Repeat(9, maxPayloadBytes - HeaderBytes + 1)}

AddressInputs == {"::1", "203.0.113.9", Absent}

HealthPath == Text(<<"/", "h", "e", "a", "l", "t", "h">>)

ParticipantsPath ==
  Text(<<"/", "p", "a", "r", "t", "i", "c", "i", "p", "a", "n", "t", "s">>)

WsPath == Text(<<"/", "w", "s">>)

PathInputs == {HealthPath, ParticipantsPath}

\* the clock of the requests, in seconds
Now == 100

\* a token that verifies at Now (it expires at 160), one that expired at 60
\* and one signed with a key the server does not know
ValidToken == Text(<<"H", ".", "e", "M", ".", "s">>)

ExpiredToken == Text(<<"H", ".", "e", "A", ".", "s">>)

ForgedToken == Text(<<"H", ".", "e", "M", ".", "z">>)

TokenQuery(token) == Text(<<"?", "t", "o", "k", "e", "n", "=">>) \o token

\* what a request carries of tokens: the query of its target, its
\* Authorization header and its Cookie header
Credentials(query, authorization, cookie) ==
  [query |-> query, authorization |-> authorization, cookie |-> cookie]

\* the handshakes of the room specification: one the gate admits, one it
\* rejects for its transport, one it rejects for its token
RoomHandshakes ==
  {Request("203.0.113.9", <<"https", "http">>, FALSE,
           WsPath \o TokenQuery(ValidToken), Undefined, Undefined, Now),
   Request("203.0.113.9", <<"http", "https">>, FALSE,
           WsPath \o TokenQuery(ValidToken), Undefined, Undefined, Now),
   Request("203.0.113.9", <<"https", "http">>, FALSE,
           WsPath, Undefined, Undefined, Now)}

ProtoInputs == {<<>>, <<"https", "http">>, <<"http", "https">>}

\* no token, a token that verifies, a token that does not
TokenInputs ==
  {Credentials(<<>>, Undefined, Undefined),
   Credentials(TokenQuery(ValidToken), Undefined, Undefined),
   Credentials(TokenQuery(ForgedToken), Undefined, Undefined)}

SignalData == {"offer", "candidate"}

\* the one delay the timers of the room specification are armed with
RoomDelays == {entropyMinDelayMs}

\* ------------------------------------------------------------------- Init
\* no socket has connected yet
AtRest ==
  /\ phase = [c \in Conns |-> "idle"]
  /\ readyState = [c \in Conns |-> "CONNECTING"]
  /\ receiving = [c \in Conns |-> FALSE]
  /\ room = <<>>
  /\ clientsById = <<>>
  /\ clientsBySocket = <<>>
  /\ mediaById = <<>>
  /\ entropyTimers = NoTimers
  /\ timeouts = EmptyBag
  /\ uuidCount = 0
  /\ registrations = [c \in Conns |-> 0]
  /\ last = Event("start", 0, NoArg)
  /\ sent = NoneSent
  /\ call = NoCall
  /\ result = NoCall

Init ==
  /\ mediaTransport \in {"ws", "webrtc"}
  /\ allowInsecure = FALSE
  /\ trustProxy = TRUE
  /\ authEnabled = TRUE
  /\ clockSkewSeconds = 30
  /\ AtRest

\* ------------------------------------------------------ wss "connection"
GateInsecure_loopbackOnly(address, protoHeader, encrypted) ==
  ~isLoopbackAddress(address)

\* !allowInsecure && !isLoopback && !isSecureRequest(...)
GateInsecure(address, protoHeader, encrypted) ==
  /\ ~allowInsecure
  /\ ~isLoopbackAddress(address)
  /\ ~isSecureRequest(protoHeader, encrypted, trustProxy)

\* the token lookup and its verification, as both the auth middleware and
\* the connection handler run them: the exception of the lookup, or no
\* token, or the verdict of verifyJwt on the token found
AuthVerdict(lookup, verified) ==
  [verdict |-> IF verified.ok THEN "ok" ELSE "invalid",
   source |-> lookup.source, token |-> lookup.token.text,
   result |-> verified]

AuthLookup(lookup, nowSeconds) ==
  IF lookup.thrown
  THEN [verdict |-> "thrown", source |-> "none", token |-> <<>>,
        result |-> Refused("")]
  ELSE IF ~Truthy(lookup.token)
  THEN [verdict |-> "missing", source |-> lookup.source, token |-> <<>>,
        result |-> Refused("")]
  ELSE AuthVerdict(lookup, verifyJwt(lookup.token.text, publicKeys,
                                     nowSeconds, clockSkewSeconds))

AuthCheck(req) ==
  AuthLookup(getTokenFromRequest(Str(req.url), req.authorization,
                                 req.cookie, cookieName),
             req.now)

GateInsecureRequest(req) ==
  GateInsecure(req.address, req.protoHeader, req.encrypted)

GateUnauthenticated_never(req) == FALSE

\* the token found by getTokenFromRequest and judged by verifyJwt
GateUnauthenticated(req) ==
  authEnabled /\ AuthCheck(req).verdict \in {"missing", "invalid"}

\* getTokenFromRequest throws in the connection handler, which catches
\* nothing
GateThrows(req) ==
  ~GateInsecureRequest(req) /\ authEnabled /\ AuthCheck(req).verdict = "thrown"

GateRejects(req) == GateInsecureRequest(req) \/ GateUnauthenticated(req)

\* the reason of the close frame 1008, in the order of the checks
GateReason(req) ==
  IF GateInsecureRequest(req) THEN "HTTPS is required."
  ELSE IF AuthCheck(req).verdict = "missing" THEN "Missing auth token."
  ELSE "Invalid auth token."

\* the exception that leaves a handler uncaught, as what the socket sees
Uncaught(error) == [type |-> "uncaught", code |-> 0, reason |-> error]

randomIntInclusive_wide(min, max) == min..(max + 1)

\* crypto.randomInt(min, max + 1): an integer from min up to, not
\* including, max + 1
randomIntInclusive(min, max) == min..((max + 1) - 1)

\* the Map entropyTimers and the timers pending in the event loop
Timers(map, pending) == [entropyTimers |-> map, timeouts |-> pending]

setTimeout_dropped(pending, timer) == pending

\* setTimeout(callback, delay): one more timer pending in the event loop
setTimeout(pending, timer) == pending (+) SetToBag({timer})

clearTimeout_forgotten(pending, timer) == pending

clearTimeout(pending, timer) == pending (-) SetToBag({timer})

TimerHas(map, ws) == ws \in DOMAIN map

TimerSet(map, ws, timer) ==
  [x \in DOMAIN map \cup {ws} |-> IF x = ws THEN timer ELSE map[x]]

TimerDelete(map, ws) == [x \in DOMAIN map \ {ws} |-> map[x]]

\* scheduleEntropy(ws): arm a one-shot timer of the drawn delay for the
\* socket and remember it
scheduleEntropy(t, ws, delay) ==
  Timers(TimerSet(t.entropyTimers, ws, Timer(ws, delay)),
         setTimeout(t.timeouts, Timer(ws, delay)))

\* stopEntropy(ws)
stopEntropy(t, ws) ==
  IF ~TimerHas(t.entropyTimers, ws) THEN t
  ELSE Timers(TimerDelete(t.entropyTimers, ws),
              clearTimeout(t.timeouts, t.entropyTimers[ws]))

SetTimers(t) ==
  /\ entropyTimers' = t.entropyTimers
  /\ timeouts' = t.timeouts

\* sockets are numbered in the order in which they connect
Connect(c, req, delay) ==
  /\ phase[c] = "idle"
  /\ \A d \in Conns : d < c => phase[d] # "idle"
  /\ delay \in randomIntInclusive(entropyMinDelayMs, entropyMaxDelayMs)
  /\ last' = Event("connection", c, req)
  /\ UNCHANGED <<configVars, callVars, tableVars, uuidCount, registrations>>
  /\ LET opened == [readyState EXCEPT ![c] = "OPEN"]
     IN IF GateRejects(req)
        THEN /\ phase' = [phase EXCEPT ![c] = "rejected"]
             /\ readyState' = wsClose(opened, c)
             /\ sent' = wsCloseFrame(NoneSent, opened, c, 1008,
                                     GateReason(req))
             /\ UNCHANGED <<receiving, timerVars>>
        ELSE IF GateThrows(req)
        THEN /\ phase' = [phase EXCEPT ![c] = "failed"]
             /\ readyState' = opened
             /\ sent' = <<Written(c, Uncaught("URIError"))>>
             /\ UNCHANGED <<receiving, timerVars>>
        ELSE /\ phase' = [phase EXCEPT ![c] = "open"]
             /\ readyState' = opened
             /\ receiving' = [receiving EXCEPT ![c] = TRUE]
             /\ SetTimers(scheduleEntropy(Timers(entropyTimers, timeouts),
                                          c, delay))
             /\ sent' = NoneSent

\* ------------------------------------------------- HTTP middleware chain
\* a response: its status, its text body, the Set-Cookie headers it carries
HttpResponse(status, body) ==
  [type |-> "http", status |-> status, body |-> body, setCookie |-> <<>>]

WithCookie(response, cookie) == [response EXCEPT !.setCookie = <<cookie>>]

\* the request went past both middlewares to its route
HttpRouted ==
  [type |-> "http-next", status |-> 0, body |-> "", setCookie |-> <<>>]

\* req.path: the request target up to its query
PathOf(url) == Split(url, 63)[1]

isHealthRequest_never(req) == FALSE

isHealthRequest(req) == PathOf(req.url) = HealthPath

ExpiresIn_sinceZero(exp, nowSeconds) == Max(0, exp)

\* Math.max(0, result.claims.exp - nowSeconds)
ExpiresIn(exp, nowSeconds) == Max(0, exp - nowSeconds)

\* lookup.source !== "cookie"
SetsCookie(source) == source # "cookie"

ClearsCookie_never(verdict) == FALSE

\* the 401 of a token that does not verify clears the cookie
ClearsCookie(verdict) == verdict = "invalid"

\* the auth middleware, for a request that is not /health, auth enabled
HttpAuthAnswer(check, nowSeconds, secureCookie) ==
  IF check.verdict = "thrown"
  THEN HttpResponse(500, "URIError")
  ELSE IF check.verdict = "missing"
  THEN HttpResponse(401, "Missing auth token.")
  ELSE IF check.verdict = "invalid"
  THEN IF ClearsCookie(check.verdict)
       THEN WithCookie(HttpResponse(401, "Invalid auth token."),
                       buildClearCookie(cookieName, secureCookie))
       ELSE HttpResponse(401, "Invalid auth token.")
  ELSE IF SetsCookie(check.source)
  THEN WithCookie(HttpRouted,
                  buildAuthCookie(cookieName, check.token,
                                  ExpiresIn(check.result.claims.exp.value,
                                            nowSeconds),
                                  secureCookie))
  ELSE HttpRouted

HttpAuth(req) ==
  HttpAuthAnswer(AuthCheck(req), req.now,
                 isSecureRequest(req.protoHeader, req.encrypted, trustProxy))

\* the secure-transport middleware and the auth middleware, in their order
HttpGate(req) ==
  IF ~isHealthRequest(req) /\ GateInsecureRequest(req)
  THEN HttpResponse(400, "HTTPS is required.")
  ELSE IF ~authEnabled \/ isHealthRequest(req) THEN HttpRouted
  ELSE HttpAuth(req)

\* the routes GET /health and GET /participants, for a request the
\* middlewares passed on with the headers they set
HttpRoute(req, passed) ==
  IF PathOf(req.url) = HealthPath
  THEN [type |-> "http", status |-> 200, body |-> "{\"ok\":true}",
        setCookie |-> passed.setCookie]
  ELSE IF PathOf(req.url) = ParticipantsPath
  THEN [type |-> "http", status |-> 200, body |-> "room.list()",
        setCookie |-> passed.setCookie]
  ELSE [type |-> "http", status |-> 200, body |-> "index.html",
        setCookie |-> passed.setCookie]

HttpPassedOn(req, gate) ==
  IF gate.type = "http-next" THEN HttpRoute(req, gate) ELSE gate

HttpAnswer(req) == HttpPassedOn(req, HttpGate(req))

\* an HTTP GET request: the middlewares answer it or pass it on to its
\* route; no state
HttpRequest(req) ==
  /\ last' = Event("http", 0, [path |-> PathOf(req.url), request |-> req])
  /\ sent' = <<Written(0, HttpAnswer(req))>>
  /\ UNCHANGED <<configVars, callVars, socketVars, tableVars, timerVars,
                 uuidCount, registrations>>

\* -------------------------------------------------- ws "message" handler
CanReceive(c) == phase[c] = "open" /\ receiving[c]

Joined(c) == MapHas(clientsBySocket, c)

RoomIsFull_strict(r) == RoomCount(r) > maxParticipants

\* room.count() >= maxParticipants
RoomIsFull(r) == RoomCount(r) >= maxParticipants

AlreadyJoined_never(bySocket, ws) == FALSE

\* clientsBySocket.has(ws)
AlreadyJoined(bySocket, ws) == MapHas(bySocket, ws)

\* String(message.name ?? "").trim().slice(0, 40)
JoinName(nameField) == Slice0(Trim(nameField), NameLimit)

Welcome(id, r, media) ==
  [type |-> "welcome",
   id |-> id,
   participants |-> SelectSeq(RoomList(r), LAMBDA peer : peer.id # id),
   mediaTransport |-> mediaTransport,
   mediaPeers |-> listMediaPeers(media, id)]

\* {type: "join", name}
RecvJoin(c, nameField) ==
  /\ CanReceive(c)
  /\ last' = Event("join", c, nameField)
  /\ UNCHANGED <<configVars, callVars, phase, receiving, mediaById, timerVars>>
  /\ IF AlreadyJoined(clientsBySocket, c)
     THEN /\ sent' = NoneSent
          /\ UNCHANGED <<readyState, room, clientsById, clientsBySocket,
                         uuidCount, registrations>>
     ELSE IF JoinName(nameField) = <<>>
     THEN /\ sent' = send(NoneSent, readyState, c,
                          ErrorMessage("Name is required."))
          /\ UNCHANGED <<readyState, room, clientsById, clientsBySocket,
                         uuidCount, registrations>>
     ELSE IF RoomIsFull(room)
     THEN /\ sent' = wsCloseFrame(send(NoneSent, readyState, c,
                                        ErrorMessage("Room is full.")),
                                   readyState, c, 1008, "Room is full.")
          /\ readyState' = wsClose(readyState, c)
          /\ UNCHANGED <<room, clientsById, clientsBySocket, uuidCount,
                         registrations>>
     ELSE LET id == uuidCount + 1
              name == JoinName(nameField)
              participant == [id |-> id, name |-> name]
              room2 == RoomAdd(room, id, name)
              byId2 == MapSet(clientsById, id, c)
              out1 == send(NoneSent, readyState, c,
                           Welcome(id, room2, mediaById))
          IN /\ uuidCount' = id
             /\ room' = room2
             /\ clientsById' = byId2
             /\ clientsBySocket' = MapSet(clientsBySocket, c, participant)
             /\ registrations' = [registrations EXCEPT ![c] = @ + 1]
             /\ sent' = broadcast(out1, readyState, byId2,
                                  [type |-> "peer-joined", peer |-> participant],
                                  id)
             /\ UNCHANGED readyState

MediaActive_always(media, id) == TRUE

\* mediaById.has(sender.id)
MediaActive(media, id) == MapHas(media, id)

\* a binary frame
RecvBinary(c, payload) ==
  /\ CanReceive(c)
  /\ last' = Event("binary", c, payload)
  /\ UNCHANGED <<configVars, callVars, socketVars, tableVars, timerVars, uuidCount,
                 registrations>>
  /\ IF mediaTransport # "ws" THEN sent' = NoneSent
     ELSE IF ~Joined(c) THEN sent' = NoneSent
     ELSE LET sender == MapGet(clientsBySocket, c)
          IN IF ~MediaActive(mediaById, sender.id) THEN sent' = NoneSent
             ELSE IF Len(payload) = 0 THEN sent' = NoneSent
             ELSE sent' = broadcastMedia(NoneSent, readyState, clientsById,
                                         sender.id, payload)

\* a text frame that JSON.parse rejects
RecvInvalidJson(c) ==
  /\ CanReceive(c)
  /\ last' = Event("invalid-json", c, NoArg)
  /\ sent' = send(NoneSent, readyState, c, ErrorMessage("Invalid JSON."))
  /\ UNCHANGED <<configVars, callVars, socketVars, tableVars, timerVars, uuidCount,
                 registrations>>

\* {type: "media-start", mimeType}
RecvMediaStart(c, mimeField) ==
  /\ CanReceive(c)
  /\ last' = Event("media-start", c, mimeField)
  /\ UNCHANGED <<configVars, callVars, socketVars, room, clientsById, clientsBySocket,
                 timerVars, uuidCount, registrations>>
  /\ IF mediaTransport # "ws"
     THEN /\ sent' = send(NoneSent, readyState, c,
                          ErrorMessage("Media transport is disabled."))
          /\ UNCHANGED mediaById
     ELSE IF ~Joined(c)
     THEN /\ sent' = send(NoneSent, readyState, c, ErrorMessage("Join first."))
          /\ UNCHANGED mediaById
     ELSE LET sender == MapGet(clientsBySocket, c)
              mimeType == normalizeMediaMimeType(mimeField)
          IN IF ~mimeType.ok
             THEN /\ sent' = send(NoneSent, readyState, c,
                                  ErrorMessage("Invalid media MIME type."))
                  /\ UNCHANGED mediaById
             ELSE /\ mediaById' = MapSet(mediaById, sender.id, mimeType.text)
                  /\ sent' = broadcast(NoneSent, readyState, clientsById,
                                       [type |-> "media-start",
                                        peerId |-> sender.id,
                                        mimeType |-> mimeType.text],
                                       sender.id)

\* {type: "media-stop"}
RecvMediaStop(c) ==
  /\ CanReceive(c)
  /\ last' = Event("media-stop", c, NoArg)
  /\ UNCHANGED <<configVars, callVars, socketVars, room, clientsById, clientsBySocket,
                 timerVars, uuidCount, registrations>>
  /\ IF ~Joined(c)
     THEN /\ sent' = send(NoneSent, readyState, c, ErrorMessage("Join first."))
          /\ UNCHANGED mediaById
     ELSE LET sender == MapGet(clientsBySocket, c)
          IN /\ mediaById' = MapDelete(mediaById, sender.id)
             /\ sent' = IF MapDeletes(mediaById, sender.id)
                        THEN broadcast(NoneSent, readyState, clientsById,
                                       [type |-> "media-stop",
                                        peerId |-> sender.id],
                                       sender.id)
                        ELSE NoneSent

SignalingEnabled_always(transport) == TRUE

\* mediaTransport === "webrtc"
SignalingEnabled(transport) == transport = "webrtc"

SignalFrame_fixedData(fromId, data) ==
  [type |-> "signal", from |-> fromId, data |-> "offer"]

\* {type: "signal", from: sender.id, data}
SignalFrame(fromId, data) == [type |-> "signal", from |-> fromId, data |-> data]

PeerUnavailable_toAll(rs, ws, byId) ==
  broadcast(NoneSent, rs, byId,
            ErrorMessage("Peer is no longer available."), NoId)

\* no socket is registered under the target id: an error to the sender
PeerUnavailable(rs, ws, byId) ==
  send(NoneSent, rs, ws, ErrorMessage("Peer is no longer available."))

\* {type: "signal", to, data}; targetId is String(message.to ?? "")
RecvSignal(c, targetId, data) ==
  /\ CanReceive(c)
  /\ last' = Event("signal", c, [to |-> targetId, data |-> data])
  /\ UNCHANGED <<configVars, callVars, socketVars, tableVars, timerVars, uuidCount,
                 registrations>>
  /\ IF ~SignalingEnabled(mediaTransport) THEN sent' = NoneSent
     ELSE IF ~Joined(c)
     THEN sent' = send(NoneSent, readyState, c, ErrorMessage("Join first."))
     ELSE LET sender == MapGet(clientsBySocket, c)
          IN IF ~MapHas(clientsById, targetId)
             THEN sent' = PeerUnavailable(readyState, c, clientsById)
             ELSE sent' = send(NoneSent, readyState,
                               MapGet(clientsById, targetId),
                               SignalFrame(sender.id, data))

\* well-formed JSON whose type matches none of the branches
RecvOther(c) ==
  /\ CanReceive(c)
  /\ last' = Event("other", c, NoArg)
  /\ sent' = NoneSent
  /\ UNCHANGED <<configVars, callVars, socketVars, tableVars, timerVars, uuidCount,
                 registrations>>

\* ------------------------------------------------------- keepalive timer
\* length of the base64 text of n bytes
Base64Length(n) == 4 * ((n + 2) \div 3)

\* the timer callback of scheduleEntropy
EntropyTimerFires(c, timer, size, delay) ==
  /\ timer \in BagToSet(timeouts)
  /\ timer.ws = c
  /\ size \in randomIntInclusive(entropyMinBytes, entropyMaxBytes)
  /\ delay \in randomIntInclusive(entropyMinDelayMs, entropyMaxDelayMs)
  /\ last' = Event("entropy-timer", c, NoArg)
  /\ UNCHANGED <<configVars, callVars, socketVars, tableVars, uuidCount, registrations>>
  /\ LET fired == Timers(TimerDelete(entropyTimers, c),
                         timeouts (-) SetToBag({timer}))
     IN IF readyState[c] # "OPEN"
        THEN /\ SetTimers(fired)
             /\ sent' = NoneSent
        ELSE /\ sent' = send(NoneSent, readyState, c,
                             [type |-> "entropy", bytes |-> size,
                              dataLength |-> Base64Length(size)])
             /\ SetTimers(scheduleEntropy(fired, c, delay))

\* ---------------------------------------------------- close and error
\* the peer's close frame or a dropped transport: the socket leaves OPEN
\* and its receiver stops, before "close" is emitted
PeerCloses(c) ==
  /\ phase[c] = "open"
  /\ receiving[c]
  /\ readyState' = [readyState EXCEPT ![c] = "CLOSING"]
  /\ receiving' = [receiving EXCEPT ![c] = FALSE]
  /\ last' = Event("peer-closes", c, NoArg)
  /\ sent' = NoneSent
  /\ UNCHANGED <<configVars, callVars, phase, tableVars, timerVars, uuidCount,
                 registrations>>

MediaRemove_keep(media, id) == media

\* mediaById.delete(participant.id)
MediaRemove(media, id) == MapDelete(media, id)

\* handleLeave(ws), with the sockets' states rs at the time of the event
handleLeave(c, rs) ==
  IF ~MapHas(clientsBySocket, c)
  THEN /\ sent' = NoneSent
       /\ UNCHANGED tableVars
  ELSE LET participant == MapGet(clientsBySocket, c)
           byId2 == MapDelete(clientsById, participant.id)
           out1 == IF MapHas(mediaById, participant.id)
                   THEN broadcast(NoneSent, rs, byId2,
                                  [type |-> "media-stop",
                                   peerId |-> participant.id], NoId)
                   ELSE NoneSent
       IN /\ clientsBySocket' = MapDelete(clientsBySocket, c)
          /\ clientsById' = byId2
          /\ room' = RoomRemove(room, participant.id)
          /\ mediaById' = MediaRemove(mediaById, participant.id)
          /\ sent' = broadcast(out1, rs, byId2,
                               [type |-> "peer-left",
                                peerId |-> participant.id], NoId)

\* cleanupSocket
cleanupSocket(c, rs) ==
  /\ SetTimers(stopEntropy(Timers(entropyTimers, timeouts), c))
  /\ handleLeave(c, rs)

\* ws "error": the socket has left OPEN and its receiver has stopped
OnError(c) ==
  /\ phase[c] = "open"
  /\ phase' = [phase EXCEPT ![c] = "errored"]
  /\ readyState' = [readyState EXCEPT ![c] = "CLOSING"]
  /\ receiving' = [receiving EXCEPT ![c] = FALSE]
  /\ last' = Event("error", c, NoArg)
  /\ cleanupSocket(c, readyState')
  /\ UNCHANGED <<configVars, callVars, uuidCount, registrations>>

\* ws "close": the socket is CLOSED
OnClose(c) ==
  /\ phase[c] \in {"open", "errored"}
  /\ phase' = [phase EXCEPT ![c] = "closed"]
  /\ readyState' = [readyState EXCEPT ![c] = "CLOSED"]
  /\ receiving' = [receiving EXCEPT ![c] = FALSE]
  /\ last' = Event("close", c, NoArg)
  /\ cleanupSocket(c, readyState')
  /\ UNCHANGED <<configVars, callVars, uuidCount, registrations>>

\* ws "error" emitted after "close": the listener is still attached and
\* cleanupSocket runs again
OnLateError(c) ==
  /\ phase[c] = "closed"
  /\ last' = Event("error", c, NoArg)
  /\ cleanupSocket(c, readyState)
  /\ UNCHANGED <<configVars, callVars, socketVars, uuidCount, registrations>>

\* a message arrives at a socket the gate has closed: the connection handler
\* returned before it attached a listener, nothing handles the message
RecvUnheard(c) ==
  /\ phase[c] = "rejected"
  /\ readyState[c] = "CLOSING"
  /\ last' = Event("unheard", c, NoArg)
  /\ sent' = NoneSent
  /\ UNCHANGED <<configVars, callVars, socketVars, tableVars, timerVars,
                 uuidCount, registrations>>

\* the closing handshake of such a socket ends: nothing listens for "close"
UnheardClose(c) ==
  /\ phase[c] = "rejected"
  /\ readyState[c] = "CLOSING"
  /\ readyState' = [readyState EXCEPT ![c] = "CLOSED"]
  /\ last' = Event("unheard-close", c, NoArg)
  /\ sent' = NoneSent
  /\ UNCHANGED <<configVars, callVars, phase, receiving, tableVars, timerVars,
                 uuidCount, registrations>>

\* ------------------------------------------------------------------- Next
\* the room: every event of a socket. The keepalive timers armed here stay
\* pending until the socket is cleaned up; their firing is followed in
\* LifecycleSpec, KeepaliveSpec and TurnedAwaySpec.
Next ==
  \/ \E c \in Conns, h \in RoomHandshakes, delay \in RoomDelays :
        Connect(c, h, delay)
  \/ \E c \in Conns, nameField \in NameInputs : RecvJoin(c, nameField)
  \/ \E c \in Conns, payload \in PayloadInputs : RecvBinary(c, payload)
  \/ \E c \in Conns : RecvInvalidJson(c)
  \/ \E c \in Conns, mimeField \in MimeInputs : RecvMediaStart(c, mimeField)
  \/ \E c \in Conns : RecvMediaStop(c)
  \/ \E c \in Conns, targetId \in 0..NumConns, data \in SignalData :
        RecvSignal(c, targetId, data)
  \/ \E c \in Conns : RecvOther(c)
  \/ \E c \in Conns : PeerCloses(c)
  \/ \E c \in Conns : OnError(c)
  \/ \E c \in Conns : OnClose(c)

Spec == Init /\ [][Next]_vars

\* ------------------------------------------ the connection gate on its own
\* every configuration of the gate, every handshake and every HTTP request
GateInit ==
  /\ mediaTransport = "ws"
  /\ allowInsecure \in BOOLEAN
  /\ trustProxy \in BOOLEAN
  /\ authEnabled \in BOOLEAN
  /\ clockSkewSeconds = 30
  /\ AtRest

GateRequests(paths) ==
  {Request(address, protoHeader, encrypted, path \o token.query,
           token.authorization, token.cookie, Now) :
     address \in AddressInputs, protoHeader \in ProtoInputs,
     encrypted \in BOOLEAN, path \in paths, token \in TokenInputs}

GateHandshakes == GateRequests({WsPath})

GateHttpRequests == GateRequests(PathInputs)

GateNext ==
  \/ \E c \in Conns, req \in GateHandshakes, delay \in RoomDelays :
        Connect(c, req, delay)
  \/ \E req \in GateHttpRequests : HttpRequest(req)

GateSpec == GateInit /\ [][GateNext]_vars

\* -------------------------------------- the media framing on its own
\* buildMediaPacket and parseMediaPacket applied once to enumerated inputs,
\* the server at rest
MaxBufferLen == 4

BufferBytes == {0, 1, 2, 3, 97, 200}

RECURSIVE BuffersUpTo(_)
BuffersUpTo(n) ==
  IF n = 0 THEN {<<>>}
  ELSE LET shorter == BuffersUpTo(n - 1)
       IN shorter \cup {Append(b, x) : b \in shorter, x \in BufferBytes}

\* buffers around the largest id length
LongBuffers ==
  {<<MEDIA_PACKET_VERSION, MAX_PEER_ID_BYTES>> \o Repeat(97, MAX_PEER_ID_BYTES),
   <<MEDIA_PACKET_VERSION, MAX_PEER_ID_BYTES>>
     \o Repeat(97, MAX_PEER_ID_BYTES + 1),
   <<MEDIA_PACKET_VERSION, MAX_PEER_ID_BYTES + 1>>
     \o Repeat(97, MAX_PEER_ID_BYTES + 2),
   <<MEDIA_PACKET_VERSION + 1, MAX_PEER_ID_BYTES>>
     \o Repeat(97, MAX_PEER_ID_BYTES + 1)}

BufferInputs == BuffersUpTo(MaxBufferLen) \cup LongBuffers

\* peer ids as code points: one- and two-byte characters, at and around
\* the length limits
PeerIdInputs ==
  {<<>>, <<97>>, <<233>>, <<112, 233, 1076, 45, 49>>, UuidString(1),
   Repeat(97, MAX_PEER_ID_BYTES), Repeat(233, MAX_PEER_ID_BYTES \div 2),
   Repeat(97, MAX_PEER_ID_BYTES + 1),
   Repeat(233, MAX_PEER_ID_BYTES \div 2 + 1)}

MediaPayloadInputs == {<<>>, <<0>>, <<1, 36, 255>>, <<233, 0, 1, 1>>}

serverVars ==
  <<configVars, socketVars, tableVars, timerVars, uuidCount,
    registrations, last, sent>>

CallBuild(peerId, payload) ==
  /\ call = NoCall
  /\ call' = [fn |-> "buildMediaPacket", peerId |-> peerId,
              payload |-> payload]
  /\ result' = buildMediaPacket(peerId, payload)
  /\ UNCHANGED serverVars

\* parse a buffer as it arrives from the network
CallParse(data) ==
  /\ call = NoCall
  /\ call' = [fn |-> "parseMediaPacket", data |-> data, built |-> FALSE,
              peerId |-> <<>>, payload |-> <<>>]
  /\ result' = parseMediaPacket(data)
  /\ UNCHANGED serverVars

\* parse the packet that the last step built
CallParseBuilt ==
  /\ call.fn = "buildMediaPacket"
  /\ ~result.thrown
  /\ call' = [fn |-> "parseMediaPacket", data |-> result.data,
              built |-> TRUE, peerId |-> call.peerId,
              payload |-> call.payload]
  /\ result' = parseMediaPacket(result.data)
  /\ UNCHANGED serverVars

MediaNext ==
  \/ \E peerId \in PeerIdInputs, payload \in MediaPayloadInputs :
        CallBuild(peerId, payload)
  \/ \E data \in BufferInputs : CallParse(data)
  \/ CallParseBuilt

MediaSpec == Init /\ [][MediaNext]_vars

\* ------------------------------- the token functions on their own
\* getTokenFromRequest and verifyJwt applied once to enumerated inputs, the
\* server at rest
UrlInputs ==
  {Text(<<"/">>),
   Text(<<"/">>) \o TokenQuery(ValidToken),
   Text(<<"/">>) \o TokenQuery(<<>>),
   Text(<<"/", "w", "s", "?", "a", "=", "b", "&">>)
     \o Tail(TokenQuery(ForgedToken)),
   Text(<<"/">>) \o TokenQuery(Text(<<"a", "+", "b", "%", "4", "1">>))}

AuthorizationInputs ==
  {Undefined,
   Str(Text(<<"B", "e", "a", "r", "e", "r", " ">>) \o ExpiredToken),
   Str(Text(<<"b", "E", "A", "R", "E", "R", " ", " ">>) \o ValidToken
         \o <<32>>),
   Str(Text(<<"B", "e", "a", "r", "e", "r", " ">>)),
   Str(Text(<<"B", "e", "a", "r", "e", "r">>)),
   Str(Text(<<"B", "a", "s", "i", "c", " ", "e", "H">>))}

CookieInputs ==
  {Undefined,
   Str(cookieName \o <<61>> \o ValidToken),
   Str(Text(<<"x", "=", "1", ";", " ">>) \o cookieName \o <<61>>
         \o ExpiredToken),
   Str(cookieName \o <<61>>),
   Str(cookieName \o Text(<<"=", "a", "%", "3", "B", "b">>)),
   Str(Text(<<"o", "t", "h", "e", "r", "=", "1">>)),
   Str(cookieName \o <<61>> \o ValidToken
         \o Text(<<";", " ", "x", "=", "%", "E", "0", "%", "A", "4", "%", "A">>))}

HeaderSegments == {Rs256Header, NoneHeader, Text(<<"!">>)}

PayloadLetters == {65 + k : k \in 0..(Len(LetterSeconds) - 1)}

PayloadSegments ==
  {<<101, c>> : c \in PayloadLetters}
    \cup {<<110, c>> : c \in PayloadLetters}
    \cup {<<105, c>> : c \in PayloadLetters}
    \cup {<<48>>, <<49>>, Text(<<"!">>)}

SignatureSegments == {<<115>>, <<122>>, Text(<<"x">>)}

\* a token of three segments
Jwt(headerSegment, payloadSegment, signatureSegment) ==
  headerSegment \o <<46>> \o payloadSegment \o <<46>> \o signatureSegment

SkewInputs == {0, 5, 30}

CallGetToken(url, authHeader, cookieHeader) ==
  /\ call = NoCall
  /\ call' = [fn |-> "getTokenFromRequest", url |-> url,
              authorization |-> authHeader, cookie |-> cookieHeader]
  /\ result' = getTokenFromRequest(Str(url), authHeader, cookieHeader,
                                   cookieName)
  /\ UNCHANGED serverVars

CallVerifyJwt(headerSegment, payloadSegment, signatureSegment, nowSeconds, skew) ==
  /\ call = NoCall
  /\ call' = [fn |-> "verifyJwt", header |-> headerSegment,
              payload |-> payloadSegment, signature |-> signatureSegment,
              now |-> nowSeconds, skew |-> skew]
  /\ result' = verifyJwt(Jwt(headerSegment, payloadSegment, signatureSegment),
                         publicKeys, nowSeconds, skew)
  /\ UNCHANGED serverVars

\* a text that is not three segments
CallVerifyText(token, nowSeconds, skew) ==
  /\ call = NoCall
  /\ call' = [fn |-> "verifyJwt-text", token |-> token, now |-> nowSeconds,
              skew |-> skew]
  /\ result' = verifyJwt(token, publicKeys, nowSeconds, skew)
  /\ UNCHANGED serverVars

TokenNext ==
  \/ \E url \in UrlInputs, authHeader \in AuthorizationInputs,
        cookieHeader \in CookieInputs :
        CallGetToken(url, authHeader, cookieHeader)
  \/ \E headerSegment \in HeaderSegments, payloadSegment \in PayloadSegments,
        signatureSegment \in SignatureSegments, skew \in SkewInputs :
        CallVerifyJwt(headerSegment, payloadSegment, signatureSegment, Now,
                      skew)
  \/ \E token \in {<<>>, Text(<<"H", ".", "e", "M">>),
                    ValidToken \o <<46>> \o <<115>>},
        skew \in SkewInputs :
        CallVerifyText(token, Now, skew)

TokenSpec == Init /\ [][TokenNext]_vars

\* --------------------------------------------- authentication on its own
\* auth enabled, no proxy, no insecure override; one handshake and any
\* number of HTTP requests, from a remote address, with every combination
\* of token sources, over TLS or not, at two readings of the clock
WithinSkewToken == Text(<<"H", ".", "e", "D", ".", "s">>)

AuthQueries == {<<>>, TokenQuery(ValidToken), TokenQuery(WithinSkewToken)}

AuthAuthorizations ==
  {Undefined,
   Str(Text(<<"B", "e", "a", "r", "e", "r", " ">>)),
   Str(Text(<<"B", "e", "a", "r", "e", "r", " ">>) \o ForgedToken)}

\* a Cookie header whose second cookie is an escape cut short
MalformedCookie ==
  Str(cookieName \o <<61>> \o ValidToken
        \o Text(<<";", " ", "x", "=", "%", "E", "0", "%", "A", "4", "%", "A">>))

AuthCookies ==
  {Undefined,
   Str(cookieName \o <<61>> \o ValidToken),
   Str(cookieName \o <<61>> \o ExpiredToken),
   Str(cookieName \o <<61>> \o WithinSkewToken),
   MalformedCookie}

ClockInputs == {Now, Now + 30}

AuthRequests(paths) ==
  {Request("203.0.113.9", <<>>, encrypted, path \o query, authorization,
           cookie, now) :
     encrypted \in BOOLEAN, path \in paths, query \in AuthQueries,
     authorization \in AuthAuthorizations, cookie \in AuthCookies,
     now \in ClockInputs}

AuthHandshakes == AuthRequests({WsPath})

AuthHttpRequests == AuthRequests(PathInputs)

AuthInit ==
  /\ mediaTransport = "ws"
  /\ allowInsecure = FALSE
  /\ trustProxy = FALSE
  /\ authEnabled = TRUE
  /\ clockSkewSeconds \in {0, 30}
  /\ AtRest

AuthNext ==
  \/ \E req \in AuthHandshakes, delay \in RoomDelays : Connect(1, req, delay)
  \/ \E req \in AuthHttpRequests : HttpRequest(req)

AuthSpec == AuthInit /\ [][AuthNext]_vars

\* ------------------------------- a connection from handshake to cleanup
\* the handshake the gate admits
AdmittedHandshake ==
  Request("203.0.113.9", <<"https", "http">>, FALSE,
          WsPath \o TokenQuery(ValidToken), Undefined, Undefined, Now)

\* values crypto.randomInt is asked for: the ends of each range and their
\* outer neighbours
DelaySamples ==
  {entropyMinDelayMs - 1, entropyMinDelayMs, entropyMaxDelayMs,
   entropyMaxDelayMs + 1}

SizeSamples ==
  {entropyMinBytes - 1, entropyMinBytes, entropyMaxBytes, entropyMaxBytes + 1}

MaxLifecycleConns == 2

LifecycleConns == 1..MaxLifecycleConns

LifecycleNext ==
  \/ \E c \in LifecycleConns, delay \in DelaySamples :
        Connect(c, AdmittedHandshake, delay)
  \/ \E c \in LifecycleConns : RecvJoin(c, <<"a", "l">>)
  \/ \E c \in LifecycleConns : RecvMediaStart(c, Str(<<"v", "/", "w">>))
  \/ \E c \in LifecycleConns, timer \in BagToSet(timeouts),
        size \in SizeSamples, delay \in DelaySamples :
        EntropyTimerFires(c, timer, size, delay)
  \/ \E c \in LifecycleConns : PeerCloses(c)
  \/ \E c \in LifecycleConns : OnError(c)
  \/ \E c \in LifecycleConns : OnClose(c)
  \/ \E c \in LifecycleConns : OnLateError(c)

LifecycleSpec == Init /\ [][LifecycleNext]_vars

\* the room with as many sockets as it has places: every handler of Next,
\* no socket is ever turned away for a full room
PairNext ==
  \/ \E c \in LifecycleConns, h \in RoomHandshakes, delay \in RoomDelays :
        Connect(c, h, delay)
  \/ \E c \in LifecycleConns, nameField \in NameInputs : RecvJoin(c, nameField)
  \/ \E c \in LifecycleConns, payload \in PayloadInputs : RecvBinary(c, payload)
  \/ \E c \in LifecycleConns : RecvInvalidJson(c)
  \/ \E c \in LifecycleConns, mimeField \in MimeInputs :
        RecvMediaStart(c, mimeField)
  \/ \E c \in LifecycleConns : RecvMediaStop(c)
  \/ \E c \in LifecycleConns, targetId \in 0..NumConns, data \in SignalData :
        RecvSignal(c, targetId, data)
  \/ \E c \in LifecycleConns : RecvOther(c)
  \/ \E c \in LifecycleConns : PeerCloses(c)
  \/ \E c \in LifecycleConns : OnError(c)
  \/ \E c \in LifecycleConns : OnClose(c)

PairSpec == Init /\ [][PairNext]_vars

\* the event loop runs the pending timer of socket c
TimerFiresFor(c) ==
  \E timer \in BagToSet(timeouts), size \in SizeSamples, delay \in DelaySamples :
    EntropyTimerFires(c, timer, size, delay)

\* the lifecycle of the connections under an event loop that runs every
\* timer that stays pending
KeepaliveSpec ==
  /\ Init
  /\ [][LifecycleNext]_vars
  /\ \A c \in LifecycleConns : WF_vars(TimerFiresFor(c))

\* ------------------------------------------------ RoomState on its own
MaxRoomId == 3

RoomIds == 1..MaxRoomId

RoomNames == {<<>>, <<"a">>}

\* the value remove() returns
RoomRemoved(r, id) ==
  IF RoomRemoves(r, id)
  THEN [defined |-> TRUE, id |-> id, name |-> MapGet(r, id)]
  ELSE [defined |-> FALSE, id |-> 0, name |-> <<>>]

roomVars ==
  <<configVars, socketVars, clientsById, clientsBySocket, mediaById,
    timerVars, uuidCount, registrations, last, sent>>

CallAdd(id, name) ==
  /\ call' = [fn |-> "add", id |-> id, name |-> name]
  /\ room' = RoomAdd(room, id, name)
  /\ result' = [defined |-> TRUE, id |-> id, name |-> name]
  /\ UNCHANGED roomVars

CallRemove(id) ==
  /\ call' = [fn |-> "remove", id |-> id, name |-> <<>>]
  /\ room' = RoomRemove(room, id)
  /\ result' = RoomRemoved(room, id)
  /\ UNCHANGED roomVars

RoomNext ==
  \/ \E id \in RoomIds, name \in RoomNames : CallAdd(id, name)
  \/ \E id \in RoomIds : CallRemove(id)

RoomSpec == Init /\ [][RoomNext]_vars

\* ------------------------------------------ sockets the gate turns away
\* a handshake that passes, one over plain HTTP, one without a token, one
\* whose token is forged, one whose token has expired
TurnedAwayHandshakes ==
  {AdmittedHandshake,
   Request("203.0.113.9", <<"http", "https">>, FALSE,
           WsPath \o TokenQuery(ValidToken), Undefined, Undefined, Now),
   Request("203.0.113.9", <<"https", "http">>, FALSE,
           WsPath, Undefined, Undefined, Now),
   Request("203.0.113.9", <<"https", "http">>, FALSE,
           WsPath \o TokenQuery(ForgedToken), Undefined, Undefined, Now),
   Request("203.0.113.9", <<"https", "http">>, FALSE,
           WsPath \o TokenQuery(ExpiredToken), Undefined, Undefined, Now)}

TurnedAwayNext ==
  \/ \E c \in Conns, req \in TurnedAwayHandshakes, delay \in RoomDelays :
        Connect(c, req, delay)
  \/ \E c \in Conns : RecvJoin(c, <<"a", "l">>)
  \/ \E c \in Conns : RecvMediaStart(c, Str(<<"v", "/", "w">>))
  \/ \E c \in Conns : RecvBinary(c, <<7>>)
  \/ \E c \in Conns, timer \in BagToSet(timeouts), delay \in RoomDelays :
        EntropyTimerFires(c, timer, entropyMinBytes, delay)
  \/ \E c \in Conns : OnClose(c)
  \/ \E c \in Conns : RecvUnheard(c)
  \/ \E c \in Conns : UnheardClose(c)

TurnedAwaySpec == Init /\ [][TurnedAwayNext]_vars

\* ----------------------------------------- the fan-out loops on their own
MaxRegistered == 3

\* registries of up to MaxRegistered participants, in the order of their
\* joins: participant i is registered for socket i
RegistryOf(ids) ==
  LET RECURSIVE Build(_)
      Build(n) ==
        IF n = 0 THEN <<>>
        ELSE IF n \in ids THEN Append(Build(n - 1), [k |-> n, v |-> n])
        ELSE Build(n - 1)
  IN Build(MaxRegistered)

RegistryInputs == {RegistryOf(ids) : ids \in SUBSET (1..MaxRegistered)}

ReadyStateInputs == [1..MaxRegistered -> {"OPEN", "CLOSING", "CLOSED"}]

\* broadcast(payload, exceptId) over a registry and the sockets' states
CallBroadcast(byId, rs, exceptId) ==
  /\ call = NoCall
  /\ call' = [fn |-> "broadcast", byId |-> byId, rs |-> rs,
              exceptId |-> exceptId,
              frame |-> [type |-> "peer-left", peerId |-> exceptId]]
  /\ result' = broadcast(NoneSent, rs, byId,
                         [type |-> "peer-left", peerId |-> exceptId],
                         exceptId)
  /\ UNCHANGED serverVars

\* broadcastMedia(senderId, payload) over a registry and the sockets' states
CallBroadcastMedia(byId, rs, senderId, payload) ==
  /\ call = NoCall
  /\ call' = [fn |-> "broadcastMedia", byId |-> byId, rs |-> rs,
              exceptId |-> senderId,
              frame |-> [type |-> "binary",
                         data |-> buildMediaPacket(UuidString(senderId),
                                                   payload).data]]
  /\ result' = broadcastMedia(NoneSent, rs, byId, senderId, payload)
  /\ UNCHANGED serverVars

FanoutNext ==
  \/ \E byId \in RegistryInputs, rs \in ReadyStateInputs,
        exceptId \in 0..MaxRegistered :
        CallBroadcast(byId, rs, exceptId)
  \/ \E byId \in RegistryInputs, rs \in ReadyStateInputs,
        senderId \in 1..MaxRegistered :
        CallBroadcastMedia(byId, rs, senderId, <<7>>)

FanoutSpec == Init /\ [][FanoutNext]_vars

\* ================================================================ claims
\* the frames written to socket c among the writes out, in order
FramesTo(out, c) ==
  LET mine == SelectSeq(out, LAMBDA w : w.to = c)
  IN [i \in 1..Len(mine) |-> mine[i].frame]

JoinedConns == {c \in Conns : Joined(c)}

IdOf(c) == MapGet(clientsBySocket, c).id

\* the step handles event op of socket c
Handled(op, c) == last'.op = op /\ last'.conn = c

\* PENDING: past the gate, not registered, neither closed nor failed
Pending(c) == phase[c] = "open" /\ ~Joined(c)

NonBlank(text) == \E i \in 1..Len(text) : text[i] \notin Whitespace

RoomFullError == ErrorMessage("Room is full.")

CloseFrame(code, reason) == [type |-> "close", code |-> code, reason |-> reason]

StrictlyAscendingIds(list) ==
  \A i, j \in 1..Len(list) : i < j => list[i].id < list[j].id

Members(list) == {list[i] : i \in 1..Len(list)}

\* C1: in every reachable state the Room holds at most MAX_PARTICIPANTS
\* participants.
C1_RoomWithinCapacity == RoomCount(room) <= maxParticipants

C1_Witness ==
  /\ last.op = "join"
  /\ RoomCount(room) = maxParticipants
  /\ ~Joined(last.conn)
  /\ FramesTo(sent, last.conn) = <<RoomFullError, CloseFrame(1008, "Room is full.")>>

\* C2: a socket is registered at most once in its lifetime, and a join from
\* a socket that is already registered changes no table, no socket and
\* writes no frame to anyone.
C2_JoinAtMostOnce ==
  /\ [](\A c \in Conns : registrations[c] <= 1)
  /\ [][\A c \in Conns :
          (Handled("join", c) /\ Joined(c))
          => /\ sent' = <<>>
             /\ UNCHANGED <<tableVars, socketVars, timerVars, uuidCount,
                            registrations>>]_vars

C2_Witness ==
  /\ last.op = "join"
  /\ NonBlank(last.arg)
  /\ Joined(last.conn)
  /\ readyState[last.conn] = "OPEN"
  /\ RoomCount(room) < maxParticipants
  /\ sent = <<>>

\* C3 as stated: a join with a non-blank name from a PENDING socket while
\* the Room is full is answered with the error "Room is full." and a close
\* frame 1008, the tables stay as they are and nobody else is written to.
C3_Original ==
  [][\A c \in Conns :
       (/\ Handled("join", c)
        /\ Pending(c)
        /\ NonBlank(last'.arg)
        /\ RoomCount(room) >= maxParticipants)
       => /\ FramesTo(sent', c) = <<RoomFullError, CloseFrame(1008, "Room is full.")>>
          /\ UNCHANGED tableVars
          /\ \A d \in Conns \ {c} : FramesTo(sent', d) = <<>>]_vars

\* C3 amended: the error and the close frame 1008 are written when the
\* socket is still OPEN; a socket that is no longer OPEN is written nothing;
\* in both cases the tables stay as they are and nobody else is written to.
C3_RoomFullRejected ==
  [][\A c \in Conns :
       (/\ Handled("join", c)
        /\ Pending(c)
        /\ NonBlank(last'.arg)
        /\ RoomCount(room) >= maxParticipants)
       => /\ UNCHANGED <<tableVars, uuidCount, registrations>>
          /\ \A d \in Conns \ {c} : FramesTo(sent', d) = <<>>
          /\ IF readyState[c] = "OPEN"
             THEN /\ FramesTo(sent', c) = <<RoomFullError, CloseFrame(1008, "Room is full.")>>
                  /\ readyState'[c] = "CLOSING"
             ELSE /\ FramesTo(sent', c) = <<>>
                  /\ readyState' = readyState]_vars

C3_Witness ==
  /\ last.op = "join"
  /\ NonBlank(last.arg)
  /\ Pending(last.conn)
  /\ RoomCount(room) = maxParticipants
  /\ readyState[last.conn] = "CLOSING"
  /\ sent = <<Written(last.conn, RoomFullError),
              Written(last.conn, CloseFrame(1008, "Room is full."))>>

\* C4: list() is in join order and holds exactly the registered
\* participants; a welcome lists, in join order and without the joiner,
\* exactly the participants registered before it that have not left.
C4_JoinOrder ==
  /\ StrictlyAscendingIds(RoomList(room))
  /\ Members(RoomList(room)) = {MapGet(clientsBySocket, c) : c \in JoinedConns}
  /\ \A k \in 1..Len(sent) :
       sent[k].frame.type = "welcome"
       => LET w == sent[k].frame
          IN /\ last.op = "join"
             /\ sent[k].to = last.conn
             /\ Joined(last.conn)
             /\ w.id = IdOf(last.conn)
             /\ StrictlyAscendingIds(w.participants)
             /\ \A p \in Members(w.participants) : p.id < w.id
             /\ Members(w.participants) =
                  {MapGet(clientsBySocket, c) : c \in JoinedConns \ {last.conn}}

C4_Witness ==
  /\ Len(RoomList(room)) = 2
  /\ \E k \in 1..Len(sent) :
       /\ sent[k].frame.type = "welcome"
       /\ Len(sent[k].frame.participants) = 1
       /\ sent[k].frame.id = sent[k].frame.participants[1].id + 1
       /\ sent[k].frame.id > 2

\* the step registers socket c
SuccessfulJoin(c) ==
  Handled("join", c) /\ ~Joined(c) /\ MapHas(clientsBySocket', c)

PeerJoined(participant) == [type |-> "peer-joined", peer |-> participant]

\* C5 as stated: a successful join registers the joiner, writes it a welcome
\* first, and then writes exactly one peer-joined to every other registered
\* socket, none to the joiner.
C5_Original ==
  [][\A c \in Conns :
       SuccessfulJoin(c)
       => LET p == MapGet(clientsBySocket', c)
          IN /\ MapHas(room', p.id)
             /\ Len(FramesTo(sent', c)) = 1
             /\ FramesTo(sent', c)[1].type = "welcome"
             /\ FramesTo(sent', c)[1].id = p.id
             /\ sent'[1].to = c
             /\ \A d \in JoinedConns :
                  FramesTo(sent', d) = <<PeerJoined(p)>>]_vars

\* C5 amended: the welcome and the peer-joined frames go to the sockets
\* that are OPEN; a socket that is not OPEN is written nothing.
C5_JoinAnnounced ==
  [][\A c \in Conns :
       SuccessfulJoin(c)
       => LET p == MapGet(clientsBySocket', c)
          IN /\ MapHas(room', p.id)
             /\ MapGet(room', p.id) = p.name
             /\ MapGet(clientsById', p.id) = c
             /\ IF readyState[c] = "OPEN"
                THEN /\ Len(FramesTo(sent', c)) = 1
                     /\ FramesTo(sent', c)[1].type = "welcome"
                     /\ FramesTo(sent', c)[1].id = p.id
                     /\ sent'[1].to = c
                ELSE FramesTo(sent', c) = <<>>
             /\ \A d \in JoinedConns :
                  FramesTo(sent', d) =
                    IF readyState[d] = "OPEN" THEN <<PeerJoined(p)>> ELSE <<>>
             /\ \A d \in Conns \ (JoinedConns \cup {c}) :
                  FramesTo(sent', d) = <<>>]_vars

C5_Witness ==
  /\ last.op = "join"
  /\ Joined(last.conn)
  /\ Len(sent) = 2
  /\ sent[1].to = last.conn
  /\ sent[1].frame.type = "welcome"
  /\ sent[2].to # last.conn
  /\ sent[2].frame = PeerJoined(MapGet(clientsBySocket, last.conn))

\* the step handles the close or the error of a registered socket
Disconnects(c) == (Handled("close", c) \/ Handled("error", c)) /\ Joined(c)

PeerLeft(id) == [type |-> "peer-left", peerId |-> id]

CountOf(frames, frame) == Cardinality({i \in 1..Len(frames) : frames[i] = frame})

\* C6 as stated: when a registered socket disconnects its participant
\* leaves the Room, the count drops by one and every remaining registered
\* socket is written peer-left for it.
C6_Original ==
  [][\A c \in Conns :
       Disconnects(c)
       => /\ ~MapHas(room', IdOf(c))
          /\ RoomCount(room') = RoomCount(room) - 1
          /\ \A d \in JoinedConns \ {c} :
               CountOf(FramesTo(sent', d), PeerLeft(IdOf(c))) = 1]_vars

\* C6 amended: peer-left goes to the remaining registered sockets that are
\* OPEN.
C6_LeaveAnnounced ==
  [][\A c \in Conns :
       Disconnects(c)
       => /\ ~MapHas(room', IdOf(c))
          /\ ~MapHas(clientsBySocket', c)
          /\ RoomCount(room') = RoomCount(room) - 1
          /\ \A d \in JoinedConns \ {c} :
               CountOf(FramesTo(sent', d), PeerLeft(IdOf(c))) =
                 IF readyState[d] = "OPEN" THEN 1 ELSE 0
          /\ FramesTo(sent', c) = <<>>]_vars

C6_Witness ==
  /\ last.op \in {"close", "error"}
  /\ registrations[last.conn] = 1
  /\ RoomCount(room) = 1
  /\ \E d \in JoinedConns :
       /\ Len(sent) > 0
       /\ sent[Len(sent)].to = d
       /\ sent[Len(sent)].frame.type = "peer-left"
       /\ sent[Len(sent)].frame.peerId # IdOf(d)

\* the step handles a binary frame of socket c that is registered and
\* media-active, in mode ws, with a payload that is not empty
RelaysFrame(c) ==
  /\ Handled("binary", c)
  /\ mediaTransport = "ws"
  /\ Joined(c)
  /\ MapHas(mediaById, IdOf(c))
  /\ Len(last'.arg) > 0

\* the frames are one binary packet that decodes to peer id and payload
IsOnePacketOf(frames, id, payload) ==
  /\ Len(frames) = 1
  /\ frames[1].type = "binary"
  /\ parseMediaPacket(frames[1].data) =
       [none |-> FALSE, version |-> 1, peerId |-> UuidString(id),
        payload |-> payload]

\* size of the packet that frames a payload for a uuid peer id
FramedSize(payload) == 2 + UuidLength + Len(payload)

\* C7 as stated: a binary frame with a non-empty payload from a media-active
\* socket reaches every other registered socket as one packet that decodes
\* to the sender's id and the payload, and never the sender.
C7_Original ==
  [][\A c \in Conns :
       RelaysFrame(c)
       => /\ \A d \in JoinedConns \ {c} :
               IsOnePacketOf(FramesTo(sent', d), IdOf(c), last'.arg)
          /\ FramesTo(sent', c) = <<>>]_vars

\* C7 amended: the packet is within the maximum message size, and it reaches
\* the other registered sockets that are OPEN.
C7_FrameRelayed ==
  [][\A c \in Conns :
       (RelaysFrame(c) /\ FramedSize(last'.arg) <= maxPayloadBytes)
       => /\ \A d \in JoinedConns \ {c} :
               IF readyState[d] = "OPEN"
               THEN IsOnePacketOf(FramesTo(sent', d), IdOf(c), last'.arg)
               ELSE FramesTo(sent', d) = <<>>
          /\ FramesTo(sent', c) = <<>>]_vars

C7_Witness ==
  /\ last.op = "binary"
  /\ Joined(last.conn)
  /\ Len(sent) = 1
  /\ sent[1].to # last.conn
  /\ IsOnePacketOf(<<sent[1].frame>>, IdOf(last.conn), last.arg)
  /\ Len(last.arg) > 1

\* C8 as stated: a relayed packet is written only to registered sockets
\* that are media-active themselves and are not the sender.
C8_Original ==
  \A k \in 1..Len(sent) :
     sent[k].frame.type = "binary"
     => /\ Joined(sent[k].to)
        /\ MapHas(mediaById, IdOf(sent[k].to))
        /\ sent[k].to # last.conn

\* C8 amended: a relayed packet is written only to registered sockets that
\* are OPEN and are not the sender, media-active or not; the sender is
\* registered and media-active.
C8_RelayRecipients ==
  \A k \in 1..Len(sent) :
     sent[k].frame.type = "binary"
     => /\ last.op = "binary"
        /\ Joined(last.conn)
        /\ MapHas(mediaById, IdOf(last.conn))
        /\ Joined(sent[k].to)
        /\ readyState[sent[k].to] = "OPEN"
        /\ sent[k].to # last.conn

C8_Witness ==
  \E k \in 1..Len(sent) :
     /\ sent[k].frame.type = "binary"
     /\ Joined(sent[k].to)
     /\ ~MapHas(mediaById, IdOf(sent[k].to))

\* C9: a binary frame from a socket that is not media-active (not
\* registered, never started, or stopped since) writes nothing to anyone
\* and changes no state.
C9_InactiveFrameDropped ==
  [][\A c \in Conns :
       (/\ Handled("binary", c)
        /\ ~(Joined(c) /\ MapHas(mediaById, IdOf(c))))
       => /\ sent' = <<>>
          /\ UNCHANGED <<configVars, callVars, socketVars, tableVars, timerVars,
                         uuidCount, registrations>>]_vars

C9_Witness ==
  /\ last.op = "binary"
  /\ mediaTransport = "ws"
  /\ Joined(last.conn)
  /\ ~MapHas(mediaById, IdOf(last.conn))
  /\ Len(last.arg) > 0
  /\ FramedSize(last.arg) <= maxPayloadBytes
  /\ \E d \in JoinedConns \ {last.conn} :
       readyState[d] = "OPEN" /\ MapHas(mediaById, IdOf(d))
  /\ sent = <<>>

\* C10: a frame whose packet exceeds the maximum message size is dropped:
\* nothing is written to anyone, the sender included, and the media state
\* and every other state stay as they are.
C10_OversizeDropped ==
  [][\A c \in Conns :
       (RelaysFrame(c) /\ FramedSize(last'.arg) > maxPayloadBytes)
       => /\ sent' = <<>>
          /\ MapHas(mediaById', IdOf(c))
          /\ UNCHANGED <<configVars, callVars, socketVars, tableVars, timerVars,
                         uuidCount, registrations>>]_vars

C10_Witness ==
  /\ last.op = "binary"
  /\ mediaTransport = "ws"
  /\ Joined(last.conn)
  /\ MapHas(mediaById, IdOf(last.conn))
  /\ Len(last.arg) <= maxPayloadBytes
  /\ FramedSize(last.arg) > maxPayloadBytes
  /\ \E d \in JoinedConns \ {last.conn} : readyState[d] = "OPEN"
  /\ sent = <<>>

\* number of UTF-8 bytes of a peer id
Utf8Length(text) == Len(Utf8Encode(text))

\* C11: for every peer id of 1 to 120 UTF-8 bytes and every payload that is
\* not empty, buildMediaPacket returns a packet, and parseMediaPacket of that
\* packet returns version 1, the same peer id and the same payload.
C11_RoundTrip ==
  /\ (/\ call.fn = "buildMediaPacket"
      /\ Utf8Length(call.peerId) >= 1
      /\ Utf8Length(call.peerId) <= MAX_PEER_ID_BYTES
      /\ call.payload # <<>>)
     => ~result.thrown
  /\ (/\ call.fn = "parseMediaPacket"
      /\ call.built
      /\ Utf8Length(call.peerId) >= 1
      /\ Utf8Length(call.peerId) <= MAX_PEER_ID_BYTES
      /\ call.payload # <<>>)
     => result = [none |-> FALSE, version |-> 1, peerId |-> call.peerId,
                  payload |-> call.payload]

C11_Witness ==
  /\ call.fn = "parseMediaPacket"
  /\ call.built
  /\ Utf8Length(call.peerId) = MAX_PEER_ID_BYTES
  /\ Len(call.peerId) < MAX_PEER_ID_BYTES
  /\ Len(call.payload) > 1
  /\ result.peerId = call.peerId
  /\ result.payload = call.payload

\* the buffer ends before the two header bytes and the id bytes it
\* announces are complete
TruncatedHeader(data) == Len(data) < 2 \/ Len(data) < 2 + data[2]

\* C12: parseMediaPacket returns a value for every buffer, and it returns
\* none for a buffer whose version byte is not 1, whose header is truncated,
\* whose id length field is zero, or whose id length exceeds the buffer.
C12_DecodeRejects ==
  call.fn = "parseMediaPacket"
  => /\ result.none \in BOOLEAN
     /\ (\/ (Len(call.data) >= 1 /\ call.data[1] # 1)
         \/ TruncatedHeader(call.data)
         \/ (Len(call.data) >= 2 /\ call.data[2] = 0)
         \/ (Len(call.data) >= 2 /\ 2 + call.data[2] > Len(call.data)))
        => result = NoPacket

C12_Witness ==
  /\ call.fn = "parseMediaPacket"
  /\ Len(call.data) = MAX_PEER_ID_BYTES + 3
  /\ call.data[1] # 1
  /\ call.data[2] = MAX_PEER_ID_BYTES
  /\ result = NoPacket

\* the step handles a signal of socket c, which is registered, in mode webrtc
Signals(c) ==
  Handled("signal", c) /\ mediaTransport = "webrtc" /\ Joined(c)

PeerUnavailableError == [type |-> "error", message |-> "Peer is no longer available."]

C15_SignalIgnored ==
  [][\A c \in Conns :
       (Handled("signal", c) /\ mediaTransport = "ws" /\ Joined(c))
       => /\ sent' = <<>>
          /\ UNCHANGED <<configVars, socketVars, tableVars, timerVars,
                         uuidCount, registrations>>]_vars

C15_Witness ==
  /\ last.op = "signal"
  /\ mediaTransport = "ws"
  /\ Joined(last.conn)
  /\ readyState[last.conn] = "OPEN"
  /\ MapHas(clientsById, last.arg.to)
  /\ MapGet(clientsById, last.arg.to) # last.conn
  /\ readyState[MapGet(clientsById, last.arg.to)] = "OPEN"
  /\ sent = <<>>

MediaStartFrame(id, mimeType) ==
  [type |-> "media-start", peerId |-> id, mimeType |-> mimeType]

MediaStopFrame(id) == [type |-> "media-stop", peerId |-> id]

\* the step handles a media-start of socket c, which is registered, in mode
\* ws, with a mimeType that is accepted
StartsMedia(c) ==
  /\ Handled("media-start", c)
  /\ mediaTransport = "ws"
  /\ Joined(c)
  /\ normalizeMediaMimeType(last'.arg).ok

\* the step handles a media-start of a socket that is not registered, or in
\* mode webrtc
MediaStartRefused(c) ==
  Handled("media-start", c) /\ (~Joined(c) \/ mediaTransport = "webrtc")

\* C16 as stated: in mode ws a media-start with a valid mimeType from a
\* registered socket records the (trimmed) mimeType for it and writes
\* media-start{peerId, mimeType} to every other registered socket, not to the
\* sender; from a socket that is not registered, or in mode webrtc, it writes
\* one error to the sender and records nothing.
C16_Original ==
  [][\A c \in Conns :
       /\ StartsMedia(c)
          => /\ MapHas(mediaById', IdOf(c))
             /\ MapGet(mediaById', IdOf(c)) = Trim(last'.arg.text)
             /\ \A d \in JoinedConns \ {c} :
                  FramesTo(sent', d) =
                    <<MediaStartFrame(IdOf(c), Trim(last'.arg.text))>>
             /\ FramesTo(sent', c) = <<>>
       /\ MediaStartRefused(c)
          => /\ Len(sent') = 1
             /\ sent'[1].to = c
             /\ sent'[1].frame.type = "error"
             /\ mediaById' = mediaById]_vars

\* C16 amended: the media-start frames go to the other registered sockets
\* that are OPEN, and the error goes to the sender when its socket is OPEN
\* ("Media transport is disabled." in mode webrtc, else "Join first.").
C16_MediaStart ==
  [][\A c \in Conns :
       /\ StartsMedia(c)
          => /\ mediaById' = MapSet(mediaById, IdOf(c), Trim(last'.arg.text))
             /\ \A d \in JoinedConns \ {c} :
                  FramesTo(sent', d) =
                    IF readyState[d] = "OPEN"
                    THEN <<MediaStartFrame(IdOf(c), Trim(last'.arg.text))>>
                    ELSE <<>>
             /\ \A d \in (Conns \ JoinedConns) \cup {c} :
                  FramesTo(sent', d) = <<>>
       /\ MediaStartRefused(c)
          => /\ sent' =
                  IF readyState[c] # "OPEN" THEN <<>>
                  ELSE IF mediaTransport = "webrtc"
                  THEN <<Written(c, [type |-> "error",
                                     message |-> "Media transport is disabled."])>>
                  ELSE <<Written(c, [type |-> "error",
                                     message |-> "Join first."])>>
             /\ mediaById' = mediaById]_vars

C16_Witness ==
  /\ last.op = "media-start"
  /\ Joined(last.conn)
  /\ MapHas(mediaById, IdOf(last.conn))
  /\ MapGet(mediaById, IdOf(last.conn)) = <<"v", "/", "w", ";">>
  /\ Len(sent) = 1
  /\ sent[1].to # last.conn
  /\ Joined(sent[1].to)
  /\ sent[1].frame = MediaStartFrame(IdOf(last.conn), <<"v", "/", "w", ";">>)

\* the step handles a media-stop of socket c, which is registered
StopsMedia(c) == Handled("media-stop", c) /\ Joined(c)

\* C17 as stated: a media-stop from a registered socket clears its media
\* entry; if there was one, media-stop{peerId} is written to every other
\* registered socket, and if there was none nothing is written.
C17_Original ==
  [][\A c \in Conns :
       StopsMedia(c)
       => /\ ~MapHas(mediaById', IdOf(c))
          /\ IF MapHas(mediaById, IdOf(c))
             THEN /\ \A d \in JoinedConns \ {c} :
                       FramesTo(sent', d) = <<MediaStopFrame(IdOf(c))>>
                  /\ FramesTo(sent', c) = <<>>
             ELSE sent' = <<>>]_vars

\* C17 amended: media-stop goes to the other registered sockets that are
\* OPEN.
C17_MediaStop ==
  [][\A c \in Conns :
       StopsMedia(c)
       => /\ ~MapHas(mediaById', IdOf(c))
          /\ \A id \in MapKeys(mediaById) \ {IdOf(c)} :
               MapHas(mediaById', id) /\ MapGet(mediaById', id) = MapGet(mediaById, id)
          /\ IF MapHas(mediaById, IdOf(c))
             THEN /\ \A d \in JoinedConns \ {c} :
                       FramesTo(sent', d) =
                         IF readyState[d] = "OPEN"
                         THEN <<MediaStopFrame(IdOf(c))>>
                         ELSE <<>>
                  /\ \A d \in (Conns \ JoinedConns) \cup {c} :
                       FramesTo(sent', d) = <<>>
             ELSE sent' = <<>>]_vars

C17_Witness ==
  /\ last.op = "media-stop"
  /\ Joined(last.conn)
  /\ ~MapHas(mediaById, IdOf(last.conn))
  /\ Len(sent) = 1
  /\ sent[1].to # last.conn
  /\ sent[1].frame = MediaStopFrame(IdOf(last.conn))

\* no media entry without a participant, and no welcome that lists one
MediaWithinRoom ==
  /\ MapKeys(mediaById) \subseteq MapKeys(room)
  /\ \A k \in 1..Len(sent) :
       sent[k].frame.type = "welcome"
       => \A i \in 1..Len(sent[k].frame.mediaPeers) :
            MapHas(room, sent[k].frame.mediaPeers[i].id)

\* C18 as stated: when a registered socket with a media entry disconnects,
\* the entry is removed and every remaining registered socket is written
\* media-stop for it; in every state each media entry belongs to a
\* participant of the Room, and so does every media peer a welcome lists.
C18_Original ==
  /\ []MediaWithinRoom
  /\ [][\A c \in Conns :
          (Disconnects(c) /\ MapHas(mediaById, IdOf(c)))
          => /\ ~MapHas(mediaById', IdOf(c))
             /\ \A d \in JoinedConns \ {c} :
                  CountOf(FramesTo(sent', d), MediaStopFrame(IdOf(c))) = 1]_vars

\* C18 amended: media-stop goes to the remaining registered sockets that
\* are OPEN.
C18_LeaveStopsMedia ==
  /\ []MediaWithinRoom
  /\ [][\A c \in Conns :
          (Disconnects(c) /\ MapHas(mediaById, IdOf(c)))
          => /\ ~MapHas(mediaById', IdOf(c))
             /\ ~MapHas(room', IdOf(c))
             /\ \A d \in JoinedConns \ {c} :
                  CountOf(FramesTo(sent', d), MediaStopFrame(IdOf(c))) =
                    IF readyState[d] = "OPEN" THEN 1 ELSE 0
             /\ FramesTo(sent', c) = <<>>]_vars

C18_Witness ==
  /\ last.op \in {"close", "error"}
  /\ registrations[last.conn] = 1
  /\ ~Joined(last.conn)
  /\ mediaById = <<>>
  /\ Len(sent) = 2
  /\ sent[1].frame.type = "media-stop"
  /\ sent[2].frame.type = "peer-left"
  /\ sent[1].frame.peerId = sent[2].frame.peerId
  /\ Joined(sent[1].to)

InvalidJsonError == [type |-> "error", message |-> "Invalid JSON."]

\* C19 as stated: a text frame that is not JSON is answered with exactly
\* one error "Invalid JSON." to its sender, whose socket stays OPEN; no
\* state changes and nobody else is written to.
C19_Original ==
  [][\A c \in Conns :
       Handled("invalid-json", c)
       => /\ sent' = <<Written(c, InvalidJsonError)>>
          /\ readyState'[c] = "OPEN"
          /\ UNCHANGED <<socketVars, tableVars>>]_vars

\* C19 amended: the error is written when the sender's socket is OPEN, and
\* the socket stays in the state it was in.
C19_InvalidJson ==
  [][\A c \in Conns :
       Handled("invalid-json", c)
       => /\ sent' = IF readyState[c] = "OPEN"
                     THEN <<Written(c, InvalidJsonError)>>
                     ELSE <<>>
          /\ UNCHANGED <<configVars, socketVars, tableVars, timerVars,
                         uuidCount, registrations>>]_vars

C19_Witness ==
  /\ last.op = "invalid-json"
  /\ Joined(last.conn)
  /\ sent = <<Written(last.conn, InvalidJsonError)>>
  /\ \E d \in JoinedConns \ {last.conn} : readyState[d] = "OPEN"
  /\ \E e \in Conns : Pending(e) /\ readyState[e] = "OPEN"

\* the transport is TLS, or a trusted proxy's X-Forwarded-Proto declares
\* https, or the peer address is loopback, or the insecure override is set
TransportAdmissible(request) ==
  \/ request.encrypted
  \/ (trustProxy /\ request.protoHeader # <<>>
                 /\ request.protoHeader[1] = "https")
  \/ request.address \in {"127.0.0.1", "::1", "::ffff:127.0.0.1"}
  \/ allowInsecure

HttpsRequiredClose ==
  [type |-> "close", code |-> 1008, reason |-> "HTTPS is required."]

HttpsRequiredResponse ==
  [type |-> "http", status |-> 400, body |-> "HTTPS is required.",
   setCookie |-> <<>>]

HeaderToken(authHeader) ==
  IF authHeader.isString
     /\ StartsWith(ToLowerCase(authHeader.text), BearerPrefix)
  THEN TrimText(SliceFrom(authHeader.text, Len(BearerPrefix)))
  ELSE <<>>

QueryToken(url) ==
  LET params == SearchParams(url)
  IN IF MapHas(params, TokenName) THEN MapGet(params, TokenName) ELSE <<>>

CookieReadable(cookieHeader) ==
  ~cookieHeader.isString \/ ~parseCookies(cookieHeader.text).thrown

CookieToken(cookieHeader) ==
  IF ~cookieHeader.isString THEN <<>>
  ELSE LET cookies == parseCookies(cookieHeader.text).entries
       IN IF MapHas(cookies, cookieName) THEN MapGet(cookies, cookieName)
          ELSE <<>>

\* the first of header, query and cookie that carries a token
ByPrecedence(url, authHeader, cookieHeader) ==
  IF HeaderToken(authHeader) # <<>>
  THEN [thrown |-> FALSE, token |-> Str(HeaderToken(authHeader)),
        source |-> "header"]
  ELSE IF QueryToken(url) # <<>>
  THEN [thrown |-> FALSE, token |-> Str(QueryToken(url)), source |-> "query"]
  ELSE IF CookieToken(cookieHeader) # <<>>
  THEN [thrown |-> FALSE, token |-> Str(CookieToken(cookieHeader)),
        source |-> "cookie"]
  ELSE [thrown |-> FALSE, token |-> NotAString, source |-> "none"]

\* C21 as stated: the lookup returns the token of the first source, in the
\* order header, query, cookie, that carries one, and names that source.
C21_Original ==
  (call.fn = "getTokenFromRequest" /\ CookieReadable(call.cookie))
  => LET expected == ByPrecedence(call.url, call.authorization, call.cookie)
     IN /\ Truthy(result.token) <=> Truthy(expected.token)
        /\ Truthy(expected.token)
           => /\ result.token = expected.token
              /\ result.source = expected.source

\* the parts a verifyJwt call was given, as the claims of its payload
CallClaims == PayloadOf(call.payload).value

\* a token of an allowed algorithm, with a numeric exp, signed by a known key
WellSigned ==
  /\ call.fn = "verifyJwt"
  /\ call.header = Rs256Header
  /\ ~PayloadOf(call.payload).thrown
  /\ CallClaims.exp.isNumber
  /\ call.signature = <<115>>

\* C22: with clock skew s a well-signed token is expired exactly when
\* exp <= now - s (so exp = now-1 fails at s = 0, exp = now-5 fails and
\* exp = now-4 passes at s = 5), and it is refused when its nbf or its iat
\* is more than s seconds ahead of now; otherwise it verifies.
C22_TimeValidity ==
  WellSigned
  => /\ CallClaims.exp.value <= call.now - call.skew
        => (~result.ok /\ result.error = "Token expired.")
     /\ (call.skew = 0 /\ CallClaims.exp.value = call.now - 1)
        => (~result.ok /\ result.error = "Token expired.")
     /\ (call.skew = 5 /\ CallClaims.exp.value = call.now - 5)
        => (~result.ok /\ result.error = "Token expired.")
     /\ (call.skew = 5 /\ CallClaims.exp.value = call.now - 4
           /\ ~CallClaims.nbf.isNumber /\ ~CallClaims.iat.isNumber)
        => result.ok
     /\ (CallClaims.nbf.isNumber
           /\ CallClaims.nbf.value > call.now + call.skew)
        => ~result.ok
     /\ (CallClaims.iat.isNumber
           /\ CallClaims.iat.value > call.now + call.skew)
        => ~result.ok
     /\ result.ok
        <=> /\ CallClaims.exp.value > call.now - call.skew
            /\ CallClaims.nbf.isNumber
                => CallClaims.nbf.value <= call.now + call.skew
            /\ CallClaims.iat.isNumber
                => CallClaims.iat.value <= call.now + call.skew

C22_Witness ==
  /\ WellSigned
  /\ call.skew = 5
  /\ CallClaims.exp.value = call.now - 4
  /\ result.ok
  /\ result.claims.exp = Num(call.now - 4)

\* the request of the last step, and the HTTP answer to it
AnsweredRequest == IF last.op = "http" THEN last.arg.request ELSE last.arg

Answer == sent[1].frame

\* an HTTP request for a route behind the auth middleware, auth enabled,
\* that the transport gate let pass
BehindAuth ==
  /\ last.op = "http"
  /\ authEnabled
  /\ last.arg.path # HealthPath
  /\ TransportAdmissible(last.arg.request)

\* a handshake that the transport gate let pass, auth enabled
HandshakeBehindAuth ==
  /\ last.op = "connection"
  /\ authEnabled
  /\ TransportAdmissible(last.arg)

\* the Set-Cookie header that stores token for maxAge seconds
AuthCookie(token, maxAge, secure) ==
  [pair |-> cookieName \o <<61>> \o encodeURIComponent(token),
   path |-> "/", httpOnly |-> TRUE, sameSite |-> "Lax", maxAge |-> maxAge,
   secure |-> secure]

\* the Set-Cookie header that clears the auth cookie
ClearedCookie(secure) ==
  [pair |-> cookieName \o <<61>>, path |-> "/", httpOnly |-> TRUE,
   sameSite |-> "Lax", maxAge |-> 0, secure |-> secure]

\* the request carries the name=value pair and no other token source
CarriesOnly(req, pair) ==
  /\ req.cookie = Str(pair)
  /\ req.authorization = Undefined
  /\ QueryToken(req.url) = <<>>

\* C23: an HTTP request that authenticates with a token not taken from the
\* cookie is answered with a Set-Cookie that stores that token, with
\* Max-Age the seconds left until its exp (never negative); one that
\* authenticates from the cookie sets no cookie; and the next request that
\* carries only the stored cookie, while the browser still keeps it,
\* authenticates.
C23_CookieSet ==
  /\ [](BehindAuth /\ Answer.status = 200
        => LET check == AuthCheck(last.arg.request)
           IN /\ check.verdict = "ok"
              /\ check.source = "cookie" => Answer.setCookie = <<>>
              /\ check.source # "cookie"
                 => Answer.setCookie =
                      <<AuthCookie(check.token,
                                   Max(0, check.result.claims.exp.value
                                          - last.arg.request.now),
                                   last.arg.request.encrypted)>>)
  /\ [][(/\ BehindAuth
         /\ Answer.status = 200
         /\ Answer.setCookie # <<>>
         /\ last'.op = "http"
         /\ last'.arg.path # HealthPath
         /\ TransportAdmissible(last'.arg.request)
         /\ CarriesOnly(last'.arg.request, Answer.setCookie[1].pair)
         /\ last'.arg.request.now >= last.arg.request.now
         /\ last'.arg.request.now - last.arg.request.now
              < Answer.setCookie[1].maxAge)
        => /\ sent'[1].frame.status = 200
           /\ sent'[1].frame.setCookie = <<>>]_vars

C23_Witness ==
  /\ BehindAuth
  /\ Answer.status = 200
  /\ AuthCheck(last.arg.request).source = "query"
  /\ last.arg.request.cookie = Str(cookieName \o <<61>> \o ExpiredToken)
  /\ Answer.setCookie
       = <<AuthCookie(ValidToken, 160 - last.arg.request.now, TRUE)>>
  /\ last.arg.request.now = Now + 30

\* the verdict of authentication on the request of the last step
AuthFails ==
  AuthCheck(AnsweredRequest).verdict \in {"missing", "invalid"}

\* the request of the last step carries an auth cookie
HasAuthCookie ==
  /\ AnsweredRequest.cookie.isString
  /\ CookieReadable(AnsweredRequest.cookie)
  /\ CookieToken(AnsweredRequest.cookie) # <<>>

\* what the last step wrote clears the auth cookie
CookieCleared ==
  \E i \in 1..Len(sent) :
     /\ sent[i].frame.type = "http"
     /\ sent[i].frame.setCookie
          = <<ClearedCookie(AnsweredRequest.encrypted)>>

C25_Original ==
  /\ BehindAuth => Answer.status \in {200, 401}
  /\ HandshakeBehindAuth
     => \/ phase[last.conn] = "open" /\ sent = <<>>
        \/ /\ phase[last.conn] = "rejected"
           /\ Len(sent) = 1
           /\ sent[1].frame.type = "close"
           /\ sent[1].frame.code = 1008

\* no valid token anywhere in the request
CarriesNoValidToken(req) ==
  \A token \in {HeaderToken(req.authorization), QueryToken(req.url),
                 CookieToken(req.cookie)} :
     ~verifyJwt(token, publicKeys, req.now, clockSkewSeconds).ok

HealthAnswer ==
  [type |-> "http", status |-> 200, body |-> "{\"ok\":true}",
   setCookie |-> <<>>]

EntropyFrames ==
  {sent[i].frame : i \in {j \in 1..Len(sent) : sent[j].frame.type = "entropy"}}

DelaysInRange ==
  \A timer \in BagToSet(timeouts) : timer.delay \in 1500..3500

\* C27 as stated: every keepalive timer is armed with a delay within
\* [1500 ms, 3500 ms], and every entropy message has bytes within
\* [128, 1024] and a data field of exactly that many characters.
C27_Original ==
  /\ DelaysInRange
  /\ \A frame \in EntropyFrames :
       /\ frame.bytes \in 128..1024
       /\ frame.dataLength = frame.bytes

\* C27 amended: every keepalive timer is armed with a delay within
\* [1500 ms, 3500 ms], and every entropy message has bytes within
\* [128, 1024] and a data field that is the base64 text of that many bytes:
\* a multiple of four characters, four for every three bytes or part of
\* three.
C27_Keepalive ==
  /\ DelaysInRange
  /\ \A frame \in EntropyFrames :
       /\ frame.bytes \in 128..1024
       /\ frame.dataLength % 4 = 0
       /\ 3 * frame.dataLength \in
            {4 * frame.bytes, 4 * (frame.bytes + 1), 4 * (frame.bytes + 2)}
       /\ frame.dataLength \in 172..1368

C27_Witness ==
  /\ last.op = "entropy-timer"
  /\ sent = <<Written(last.conn, [type |-> "entropy", bytes |-> 1024,
                                  dataLength |-> 1368])>>
  /\ Timer(last.conn, 3500) \in BagToSet(timeouts)
  /\ \E c \in Conns :
       c # last.conn /\ Timer(c, 1500) \in BagToSet(timeouts)

\* the ids the map of a room holds
Live(r) == MapKeys(r)

DisconnectEvent(c) == Handled("close", c) \/ Handled("error", c)

\* cleanupSocket has run for socket c
CleanedUp(c) == phase[c] \in {"errored", "closed"}

\* the sockets a broadcast writes to once socket c has left
WriteReadyPeers(c) ==
  {d \in JoinedConns \ {c} : readyState[d] = "OPEN"}

\* C29: the first of the close and error events of a registered connection
\* removes its participant from the Room and from the tables and broadcasts
\* peer-left once, after one media-stop if its media was active, to the
\* sockets a broadcast writes to; the second event, in either order,
\* changes no table and no timer and writes nothing.
C29_DisconnectOnce ==
  [][\A c \in Conns :
       /\ (DisconnectEvent(c) /\ Joined(c))
          => /\ ~CleanedUp(c)
             /\ ~MapHas(clientsBySocket', c)
             /\ ~MapHas(clientsById', IdOf(c))
             /\ ~MapHas(room', IdOf(c))
             /\ ~MapHas(mediaById', IdOf(c))
             /\ RoomCount(room') = RoomCount(room) - 1
             /\ \A d \in Conns :
                  FramesTo(sent', d) =
                    IF d \notin WriteReadyPeers(c) THEN <<>>
                    ELSE IF MapHas(mediaById, IdOf(c))
                    THEN <<MediaStopFrame(IdOf(c)), PeerLeft(IdOf(c))>>
                    ELSE <<PeerLeft(IdOf(c))>>
       /\ (DisconnectEvent(c) /\ CleanedUp(c))
          => /\ ~Joined(c)
             /\ UNCHANGED <<tableVars, timerVars, uuidCount>>
             /\ sent' = NoneSent]_vars

C29_Witness ==
  /\ last.op = "error"
  /\ phase[last.conn] = "closed"
  /\ registrations[last.conn] = 1
  /\ ~Joined(last.conn)
  /\ sent = NoneSent
  /\ RoomCount(room) = 1
  /\ \E d \in JoinedConns : readyState[d] = "OPEN"

\* the number of timers pending for socket c
PendingFor(c) ==
  BagCardinality([timer \in {t \in BagToSet(timeouts) : t.ws = c}
                    |-> timeouts[timer]])

\* C30: a connection has at most one keepalive timer pending, and the one
\* pending is the one entropyTimers holds for it; once its close or error
\* event has been handled no timer is pending for it, no timer callback
\* runs for it and no entropy message is written to it.
C30_KeepaliveCancelled ==
  \A c \in Conns :
     /\ PendingFor(c) <= 1
     /\ PendingFor(c) = 1
        => /\ TimerHas(entropyTimers, c)
           /\ entropyTimers[c] \in BagToSet(timeouts)
     /\ CleanedUp(c)
        => /\ PendingFor(c) = 0
           /\ ~TimerHas(entropyTimers, c)
           /\ last.conn = c => last.op \in {"close", "error"}
           /\ \A i \in 1..Len(sent) :
                sent[i].to = c => sent[i].frame.type # "entropy"

C30_Witness ==
  /\ last.op \in {"close", "error"}
  /\ CleanedUp(last.conn)
  /\ PendingFor(last.conn) = 0
  /\ \E c \in Conns :
       /\ c # last.conn
       /\ phase[c] = "open"
       /\ PendingFor(c) = 1

\* the ids that were issued and are registered no more: the participants
\* whose disconnect has been handled
DepartedIds == (1..uuidCount) \ MapKeys(clientsById)

\* the welcome frames among the writes out
Welcomes(out) ==
  {out[i].frame : i \in {j \in 1..Len(out) : out[j].frame.type = "welcome"}}

\* the ids a welcome names, as participants or as media peers
NamedIn(welcome) ==
  {welcome.participants[i].id : i \in 1..Len(welcome.participants)}
    \cup {welcome.mediaPeers[i].id : i \in 1..Len(welcome.mediaPeers)}

\* no handler writes to a socket whose disconnect has been handled, and no
\* welcome names a participant that has left
GoneIsGone ==
  /\ \A c \in Conns : CleanedUp(c) => FramesTo(sent', c) = <<>>
  /\ \A welcome \in Welcomes(sent') :
       /\ NamedIn(welcome) \cap DepartedIds' = {}
       /\ \A id \in NamedIn(welcome) :
            ~CleanedUp(MapGet(clientsById', id))

FansOut(c) ==
  \/ SuccessfulJoin(c)
  \/ StartsMedia(c)
  \/ StopsMedia(c) /\ MapHas(mediaById, IdOf(c))
  \/ RelaysFrame(c) /\ FramedSize(last'.arg) <= maxPayloadBytes
  \/ Disconnects(c)

FanOutTypes ==
  {"peer-joined", "peer-left", "media-start", "media-stop", "binary"}

\* the fanned-out frames written to socket d, in order
FannedOut(out, d) ==
  SelectSeq(FramesTo(out, d), LAMBDA frame : frame.type \in FanOutTypes)

\* the sockets a fanned-out frame was written to
FannedTo(out) == {d \in Conns : FannedOut(out, d) # <<>>}

\* C32 as stated: the recipients of a fan-out are exactly the sockets
\* registered at the start of its handler, without the socket the handler
\* runs for.
C32_Original ==
  [][\A c \in Conns :
       FansOut(c) => FannedTo(sent') = JoinedConns \ {c}]_vars

\* C32 amended: the recipients of a fan-out are exactly the sockets that
\* are registered and OPEN at the start of its handler, without the socket
\* the handler runs for; all of them are written the same frames, and no
\* socket and no table entry of another socket changes during the handler.
C32_Snapshot ==
  [][\A c \in Conns :
       FansOut(c)
       => /\ FannedTo(sent') = WriteReadyPeers(c)
          /\ \A d, e \in WriteReadyPeers(c) :
               FannedOut(sent', d) = FannedOut(sent', e)
          /\ \A d \in Conns \ {c} :
               /\ readyState'[d] = readyState[d]
               /\ phase'[d] = phase[d]
               /\ MapHas(clientsBySocket', d) = MapHas(clientsBySocket, d)]_vars

C32_Witness ==
  /\ last.op = "join"
  /\ Joined(last.conn)
  /\ \E d \in JoinedConns \ {last.conn} :
       /\ readyState[d] = "OPEN"
       /\ FannedTo(sent) = {d}
       /\ FannedOut(sent, d) =
            <<PeerJoined(MapGet(clientsBySocket, last.conn))>>
  /\ \E e \in Conns :
       /\ phase[e] = "open"
       /\ readyState[e] = "CLOSING"
       /\ ~receiving[e]

\* the entries of the registry a fan-out can write to: every entry but the
\* excluded id whose socket is OPEN
Eligible ==
  SelectSeq(call.byId,
            LAMBDA e : e.k # call.exceptId /\ call.rs[e.v] = "OPEN")

\* C33: a fan-out writes its frame once to every registered socket, other
\* than the excluded one, that is OPEN, in the order of the registry, and
\* nothing to or for a socket that is not OPEN: the sockets after a skipped
\* one are still written to in the same call.
C33_BestEffort ==
  call.fn \in {"broadcast", "broadcastMedia"}
  => result = [i \in 1..Len(Eligible) |->
                 Written(Eligible[i].v, call.frame)]

C33_Witness ==
  /\ call.fn = "broadcast"
  /\ Len(call.byId) = 3
  /\ call.exceptId = 1
  /\ call.rs[2] = "CLOSING"
  /\ call.rs[3] = "OPEN"
  /\ result = <<Written(3, PeerLeft(1))>>

\* C34 as stated: a well-formed JSON message whose type is none of join,
\* signal, media-start, media-stop is answered with an error to its sender
\* (taken here with a sender whose socket is OPEN).
C34_Original ==
  [][\A c \in Conns :
       (Handled("other", c) /\ readyState[c] = "OPEN")
       => /\ Len(FramesTo(sent', c)) = 1
          /\ FramesTo(sent', c)[1].type = "error"]_vars

\* the handshake carries its token, if any, in the query only
QueryOnly(req) == req.authorization = Undefined /\ req.cookie = Undefined

\* the handshake fails the gate: its transport is not admissible, or auth is
\* on and its token is missing or does not verify
FailsGate(req) ==
  \/ ~TransportAdmissible(req)
  \/ /\ authEnabled
     /\ ~verifyJwt(QueryToken(req.url), publicKeys, req.now,
                   clockSkewSeconds).ok

\* the sockets registered under some id
RegisteredSockets == {clientsById[i].v : i \in 1..Len(clientsById)}

TurnedAway(c) == phase[c] = "rejected"

\* C35: a handshake that fails the gate is closed with 1008 and nothing
\* else happens; from then on the socket has no keepalive timer, is in no
\* table and not in the Room, nothing is written to it, and what it sends
\* is handled by nobody: no state changes and nothing is written.
C35_TurnedAway ==
  /\ [](\A c \in Conns :
          TurnedAway(c)
          => /\ ~Joined(c)
             /\ c \notin RegisteredSockets
             /\ RoomCount(room) = Cardinality(JoinedConns)
             /\ ~TimerHas(entropyTimers, c)
             /\ PendingFor(c) = 0
             /\ readyState[c] \in {"CLOSING", "CLOSED"})
  /\ [][\A c \in Conns :
          /\ (Handled("connection", c) /\ QueryOnly(last'.arg)
                                       /\ FailsGate(last'.arg))
             => /\ TurnedAway(c)'
                /\ Len(sent') = 1
                /\ sent'[1].to = c
                /\ sent'[1].frame.type = "close"
                /\ sent'[1].frame.code = 1008
                /\ UNCHANGED <<tableVars, timerVars, uuidCount>>
          /\ TurnedAway(c)
             => /\ TurnedAway(c)'
                /\ FramesTo(sent', c) = <<>>
                /\ last'.conn = c
                   => /\ last'.op \in {"connection", "unheard",
                                       "unheard-close"}
                      /\ sent' = NoneSent
                      /\ UNCHANGED <<tableVars, timerVars, uuidCount>>]_vars

C35_Witness ==
  /\ last.op = "join"
  /\ Joined(last.conn)
  /\ FannedTo(sent) # {}
  /\ \E c \in Conns :
       /\ TurnedAway(c)
       /\ readyState[c] = "CLOSING"
       /\ FramesTo(sent, c) = <<>>

\* the ids of the participants the socket table holds
ParticipantIds == {IdOf(c) : c \in JoinedConns}

\* C36: the id table, the socket table and the Room hold the same ids, each
\* once; the socket registered under an id is the socket whose participant
\* has that id; every media-active id is among them.
C36_RegistryConsistent ==
  /\ MapKeys(clientsById) = MapKeys(room)
  /\ MapKeys(room) = ParticipantIds
  /\ Len(clientsById) = Cardinality(ParticipantIds)
  /\ Len(room) = Cardinality(ParticipantIds)
  /\ Len(clientsBySocket) = Cardinality(ParticipantIds)
  /\ \A c \in JoinedConns : MapGet(clientsById, IdOf(c)) = c
  /\ \A id \in MapKeys(clientsById) :
       /\ Joined(MapGet(clientsById, id))
       /\ IdOf(MapGet(clientsById, id)) = id
  /\ \A id \in MapKeys(room) :
       MapGet(room, id) = MapGet(clientsBySocket, MapGet(clientsById, id)).name
  /\ MapKeys(mediaById) \subseteq MapKeys(room)
  /\ Len(mediaById) = Cardinality(MapKeys(mediaById))

C36_Witness ==
  /\ RoomCount(room) = 2
  /\ uuidCount = 3
  /\ Len(mediaById) = 1
  /\ \E c \in Conns : CleanedUp(c) /\ registrations[c] = 1
  /\ MapKeys(clientsById) = MapKeys(room)
  /\ MapKeys(mediaById) \subseteq MapKeys(room)

\* the step handles a frame of socket c, past the gate and not registered,
\* that is not a join
PendingSends(c) ==
  /\ Pending(c)
  /\ \E op \in {"signal", "media-start", "media-stop", "binary", "other",
                 "invalid-json"} :
       Handled(op, c)

\* the reply the handler has for such a frame, none if it has none
PendingReply ==
  IF last'.op = "invalid-json" THEN <<InvalidJsonError>>
  ELSE IF last'.op = "media-stop" THEN <<ErrorMessage("Join first.")>>
  ELSE IF last'.op = "media-start"
  THEN IF mediaTransport = "ws" THEN <<ErrorMessage("Join first.")>>
       ELSE <<ErrorMessage("Media transport is disabled.")>>
  ELSE IF last'.op = "signal" /\ mediaTransport = "webrtc"
  THEN <<ErrorMessage("Join first.")>>
  ELSE <<>>

\* C37: a frame other than a join from a socket that is past the gate and
\* not registered changes no table, no timer and no socket, and writes
\* nothing to any other socket: at most the one error reply of its branch
\* to the socket itself, and only while that socket is OPEN.
C37_PendingIsInert ==
  [][\A c \in Conns :
       PendingSends(c)
       => /\ UNCHANGED <<configVars, socketVars, tableVars, timerVars,
                         uuidCount, registrations>>
          /\ \A d \in Conns \ {c} : FramesTo(sent', d) = <<>>
          /\ FramesTo(sent', c) =
               IF readyState[c] = "OPEN" THEN PendingReply ELSE <<>>]_vars

C37_Witness ==
  /\ last.op = "media-start"
  /\ mediaTransport = "ws"
  /\ Pending(last.conn)
  /\ normalizeMediaMimeType(last.arg).ok
  /\ sent = <<Written(last.conn, ErrorMessage("Join first."))>>
  /\ \E d \in JoinedConns : readyState[d] = "OPEN"
  /\ mediaById = <<>>

\* the socket's join was answered "Room is full." and close(1008): the
\* server has started the closing handshake (the only server-side close of
\* a socket past the gate), the peer's close frame has not arrived yet
RejectedFull(c) ==
  phase[c] = "open" /\ readyState[c] = "CLOSING" /\ receiving[c]

\* C38 as stated: a socket whose join was rejected with "Room is full."
\* is never registered afterwards, whatever it sends before its socket
\* finishes closing.
C38_Original == \A c \in Conns : RejectedFull(c) => ~Joined(c)

\* the step handles the close or the error of a registered socket whose
\* media is active
MediaActiveLeaves(c) == Disconnects(c) /\ MediaActive(mediaById, IdOf(c))

\* in the frames written, every media-stop comes before every peer-left
StopsBeforeLeft(out) ==
  \A i, j \in 1..Len(out) :
    (out[i].frame.type = "media-stop" /\ out[j].frame.type = "peer-left")
    => i < j

\* C39 as stated: when a registered socket with active media disconnects,
\* every remaining registered socket is written media-stop and then
\* peer-left for its participant, and the departing socket is written
\* neither.
C39_Original ==
  [][\A c \in Conns :
       MediaActiveLeaves(c)
       => /\ \A d \in JoinedConns \ {c} :
               FramesTo(sent', d) =
                 <<MediaStopFrame(IdOf(c)), PeerLeft(IdOf(c))>>
          /\ FramesTo(sent', c) = <<>>]_vars

\* C39 amended: the two frames go, in that order, to the remaining
\* registered sockets that are OPEN when the event is handled; a remaining
\* socket that is not OPEN and the departing socket are written nothing.
C39_StopThenLeft ==
  [][\A c \in Conns :
       MediaActiveLeaves(c)
       => /\ StopsBeforeLeft(sent')
          /\ \A d \in JoinedConns \ {c} :
               FramesTo(sent', d) =
                 IF readyState'[d] = "OPEN"
                 THEN <<MediaStopFrame(IdOf(c)), PeerLeft(IdOf(c))>>
                 ELSE <<>>
          /\ FramesTo(sent', c) = <<>>
          /\ Len(sent') = 2 * Cardinality(WriteReadyPeers(c))]_vars

C39_Witness ==
  /\ last.op = "close"
  /\ registrations[last.conn] = 1
  /\ phase[last.conn] = "closed"
  /\ \E d \in JoinedConns :
       /\ readyState[d] = "OPEN"
       /\ \E id \in 1..uuidCount :
            /\ ~MapHas(room, id)
            /\ sent = <<Written(d, MediaStopFrame(id)),
                        Written(d, PeerLeft(id))>>

\* socket c is past the gate and OPEN
StaysOpen(c) == phase[c] = "open" /\ readyState[c] = "OPEN"

\* the step just taken was the timer of socket c writing it an entropy
\* message
EmittedTo(c) ==
  /\ last.op = "entropy-timer"
  /\ last.conn = c
  /\ \E i \in 1..Len(sent) :
       sent[i].to = c /\ sent[i].frame.type = "entropy"

\* C40: a socket past the gate that is OPEN has one keepalive timer
\* pending; a timer that fires for an OPEN socket writes it an entropy
\* message and leaves one timer pending for it; and, timers that stay
\* pending being run, a socket that stays OPEN for ever is written entropy
\* messages again and again, registered or not.
C40_KeepaliveRecurs ==
  /\ [](\A c \in LifecycleConns : StaysOpen(c) => PendingFor(c) = 1)
  /\ [][\A c \in LifecycleConns :
          (Handled("entropy-timer", c) /\ readyState[c] = "OPEN")
          => /\ EmittedTo(c)'
             /\ PendingFor(c)' = 1
             /\ TimerHas(entropyTimers', c)]_vars
  /\ \A c \in LifecycleConns : <>[]StaysOpen(c) => []<>EmittedTo(c)

C40_Witness ==
  /\ EmittedTo(last.conn)
  /\ StaysOpen(last.conn)
  /\ Joined(last.conn)
  /\ PendingFor(last.conn) = 1
  /\ \E c \in LifecycleConns :
       /\ c # last.conn
       /\ StaysOpen(c)
       /\ Pending(c)
       /\ PendingFor(c) = 1

====
